---- MODULE Spec2Model ----
(***************************************************************************)
(* Merge-request migration engine of gitlab-2-github.                      *)
(*                                                                         *)
(* Strings are sequences of one-character strings, so that formatting,     *)
(* truncation and parsing of destination titles are computed as the Go     *)
(* code computes them.                                                     *)
(***************************************************************************)
EXTENDS Integers, Sequences, FiniteSets, TLC

(* ------------------------------ bounds -------------------------------- *)

\* number of merge requests of the source project (IIDs 1..NumMRs)
NumMRs == 3

\* number of invocations of the migrate command that are explored
MaxRuns == 3

\* cap on the number of destination pull requests
MaxPRs == 2

\* largest IID for which the title functions are explored (SpecTitle)
MaxIID == 12

\* how often one title is relabeled as failed (SpecTitle)
MaxRelabels == 2

\* largest IID of a page given to the page selection (SpecSelect)
MaxSelectID == 7

(* ------------------------- program constants -------------------------- *)

MaxPRTitleLength == 256

PerPage == 100

(* ------------------------------ strings ------------------------------- *)

\* the literal "GL#"
GLPrefix == <<"G", "L", "#">>

\* the literal " [Closed] " of the format "GL#%d [Closed] %s"
ClosedInfix == <<" ", "[", "C", "l", "o", "s", "e", "d", "]", " ">>

\* the literal "[Failed] " of the format "[Failed] %s"
FailedPrefix == <<"[", "F", "a", "i", "l", "e", "d", "]", " ">>

\* the literal "... [truncated]"
TruncateSuffix == <<".", ".", ".", " ", "[", "t", "r", "u", "n", "c", "a", "t", "e", "d", "]">>

Digits == <<"0", "1", "2", "3", "4", "5", "6", "7", "8", "9">>

IsDigit(c) == \E d \in 1..10 : Digits[d] = c

DigitVal(c) == (CHOOSE d \in 1..10 : Digits[d] = c) - 1

\* strings.HasPrefix
HasPrefix(s, p) == Len(s) >= Len(p) /\ SubSeq(s, 1, Len(p)) = p

\* strings.TrimPrefix
TrimPrefix(s, p) == IF HasPrefix(s, p) THEN SubSeq(s, Len(p) + 1, Len(s)) ELSE s

\* strings.Split(s, " ")[0]: the text before the first space, all of s if none
RECURSIVE SplitFirst(_)
SplitFirst(s) ==
    IF s = <<>> \/ Head(s) = " " THEN <<>>
    ELSE <<Head(s)>> \o SplitFirst(Tail(s))

\* value of a non-empty string of decimal digits
RECURSIVE DigitsValue(_)
DigitsValue(s) ==
    IF s = <<>> THEN 0
    ELSE DigitsValue(SubSeq(s, 1, Len(s) - 1)) * 10 + DigitVal(s[Len(s)])

\* strconv.Atoi with the error dropped (mrIID, _ := strconv.Atoi(..)):
\* an optional sign and decimal digits give the number, anything else 0
Atoi(s) ==
    LET signed == s # <<>> /\ Head(s) \in {"+", "-"}
        body == IF signed THEN Tail(s) ELSE s
    IN  IF body = <<>> \/ \E i \in 1..Len(body) : ~IsDigit(body[i]) THEN 0
        ELSE IF signed /\ Head(s) = "-" THEN 0 - DigitsValue(body)
        ELSE DigitsValue(body)

\* the verb %d of fmt.Sprintf for n >= 0
RECURSIVE Itoa(_)
Itoa(n) ==
    IF n < 10 THEN <<Digits[n + 1]>>
    ELSE Itoa(n \div 10) \o <<Digits[(n % 10) + 1]>>

\* utils.TruncateText
TruncateText(text, maxLength) ==
    IF Len(text) <= maxLength THEN text
    ELSE LET availableLength == maxLength - Len(TruncateSuffix)
         IN  IF availableLength <= 0 THEN SubSeq(text, 1, maxLength)
             ELSE SubSeq(text, 1, availableLength) \o TruncateSuffix

(* --------------------------- source project ---------------------------- *)

\* mr.State of merge request iid, as the source reports it
MRState(iid) ==
    CASE iid % 3 = 1 -> "closed"
      [] iid % 3 = 2 -> "opened"
      [] OTHER -> "merged"

\* mr.Title of merge request iid; the first one looks like another marker
MRTitle(iid) ==
    CASE iid = 1 -> <<"G", "L", "#", "2", " ", "b">>
      [] iid = 2 -> <<"a">>
      [] OTHER -> <<>>

\* the merge requests of the project in creation order
RECURSIVE AllMRs(_)
AllMRs(n) ==
    IF n = 0 THEN <<>>
    ELSE Append(AllMRs(n - 1), [IID |-> n, State |-> MRState(n)])

\* gitlab.GetMergeRequests: page p of the list, PerPage items a page
GetMergeRequests(p) ==
    LET all == AllMRs(NumMRs)
        from == (p - 1) * PerPage + 1
        to == IF p * PerPage < Len(all) THEN p * PerPage ELSE Len(all)
    IN  IF from > Len(all) THEN <<>> ELSE SubSeq(all, from, to)

(* --------------------- pull request synthesizer ------------------------ *)

\* PRTitle with the format "GL#%d[Closed] %s": the space after the id is lost
PRTitle_NoSpace(iid, state, title) ==
    TruncateText(
        IF state = "closed"
        THEN GLPrefix \o Itoa(iid) \o Tail(ClosedInfix) \o title
        ELSE GLPrefix \o Itoa(iid) \o <<" ">> \o title,
        MaxPRTitleLength)

\* the title createPullRequest submits
PRTitle(iid, state, title) ==
    TruncateText(
        IF state = "closed"
        THEN GLPrefix \o Itoa(iid) \o ClosedInfix \o title
        ELSE GLPrefix \o Itoa(iid) \o <<" ">> \o title,
        MaxPRTitleLength)

(* ---------------------- resume/idempotency tracker --------------------- *)

\* FailedTitle with the format "%s [Failed]": the mark is put behind the title
FailedTitle_Suffix(title) == title \o <<" ">> \o SubSeq(FailedPrefix, 1, Len(FailedPrefix) - 1)

\* the title the stale-open cleanup writes
FailedTitle(title) == FailedPrefix \o title

\* strings.HasPrefix(title, "GL#")
HasMarker(title) == HasPrefix(title, GLPrefix)

\* the id the tracker reads from a title that has the marker
MarkerID(title) == Atoi(SplitFirst(TrimPrefix(title, GLPrefix)))

\* migratedMRIIDs built from the titles of the closed pull requests
MigratedIDs(titles) ==
    {MarkerID(titles[i]) : i \in {j \in 1..Len(titles) : HasMarker(titles[j])}}

(* ----------------------------- work selector --------------------------- *)

InFilter(iid, filter) == \E i \in 1..Len(filter) : filter[i] = iid

\* IsTarget with the allow-list looked at before the continuation id
IsTarget_FilterFirst(mr, o, migrated) ==
    IF Len(o.FilterMergeReqIDs) > 0 THEN InFilter(mr.IID, o.FilterMergeReqIDs)
    ELSE IF o.ContinueFromID > 0 /\ mr.IID < o.ContinueFromID THEN FALSE
    ELSE IF mr.IID \in migrated THEN FALSE
    ELSE mr.State # "opened"

\* IsTarget with the continuation id compared one too low
IsTarget_OffByOne(mr, o, migrated) ==
    IF o.ContinueFromID > 0 /\ mr.IID < o.ContinueFromID - 1 THEN FALSE
    ELSE IF Len(o.FilterMergeReqIDs) > 0 THEN InFilter(mr.IID, o.FilterMergeReqIDs)
    ELSE IF mr.IID \in migrated THEN FALSE
    ELSE mr.State # "opened"

\* IsTarget with the migrated-id set consulted for listed items too
IsTarget_ListedSkipsMigrated(mr, o, migrated) ==
    IF o.ContinueFromID > 0 /\ mr.IID < o.ContinueFromID THEN FALSE
    ELSE IF mr.IID \in migrated THEN FALSE
    ELSE IF Len(o.FilterMergeReqIDs) > 0 THEN InFilter(mr.IID, o.FilterMergeReqIDs)
    ELSE mr.State # "opened"

\* whether the loop over a page appends mr to targetMRs
IsTarget(mr, o, migrated) ==
    IF o.ContinueFromID > 0 /\ mr.IID < o.ContinueFromID THEN FALSE
    ELSE IF Len(o.FilterMergeReqIDs) > 0 THEN InFilter(mr.IID, o.FilterMergeReqIDs)
    ELSE IF mr.IID \in migrated THEN FALSE
    ELSE mr.State # "opened"

\* targetMRs of one page, in page order
RECURSIVE SelectTargets(_, _, _)
SelectTargets(mrs, o, migrated) ==
    IF mrs = <<>> THEN <<>>
    ELSE (IF IsTarget(Head(mrs), o, migrated) THEN <<Head(mrs).IID>> ELSE <<>>)
         \o SelectTargets(Tail(mrs), o, migrated)

(* -------------------------------- state -------------------------------- *)

VARIABLES
    dest,            \* the destination's pull requests, by number
    runs,            \* invocations of the migrate command so far
    pc,              \* where MigrateMergeRequests stands ("idle": no run)
    outcome,         \* how the last run ended
    opts,            \* the MigrationOptions of the run
    migratedMRIIDs,  \* the migrated-id set of the run
    openedPRs,       \* numbers of the open pull requests still to clean up
    page,            \* page of the pagination loop
    targetMRs,       \* the selected ids of the page still to migrate
    cur,             \* [iid, pr]: the item being processed and its pull request
    prep,            \* hasDiffs, fallbackNoDiffPR, hasCreatedTargetBranch
    git,             \* the working copy: HEAD, the item's branches, the push
    hist,            \* what the run has done so far (history)
    tIn, tOut,       \* input and result of the title functions (SpecTitle)
    sIn, sOut,       \* input and result of the page selection (SpecSelect)
    rIn, rSt,        \* the call and the state of RetryableOperation (SpecRetry)
    bIn, bOut,       \* input and result of calculateBackoff (SpecBackoff)
    lIn, lOut,       \* input and result of the line-range resolution (SpecRange)
    cIn, cSt,        \* the item and the state of its migration (SpecItem)
    aIn, aOut,       \* input and result of the approval times (SpecApproval)
    nIn, nOut        \* a comment body and the body that is sent (SpecBody)

runVars == <<dest, runs, pc, outcome, opts, migratedMRIIDs, openedPRs, page,
             targetMRs, cur, prep, git, hist>>

titleVars == <<tIn, tOut>>

selectVars == <<sIn, sOut>>

retryVars == <<rIn, rSt>>

backoffVars == <<bIn, bOut>>

rangeVars == <<lIn, lOut>>

itemVars == <<cIn, cSt>>

approvalVars == <<aIn, aOut>>

bodyVars == <<nIn, nOut>>

\* the variables of the gateway and of the comment migration
moreVars == <<retryVars, backoffVars, rangeVars, itemVars, approvalVars, bodyVars>>

\* the variables the run of MigrateMergeRequests leaves alone
notRunVars == <<titleVars, selectVars, moreVars>>

vars == <<runVars, titleVars, selectVars, moreVars>>

None == "none"

NoOpts == [ContinueFromID |-> 0, FilterMergeReqIDs |-> <<>>]

NoCur == [iid |-> 0, pr |-> 0, label |-> None]

NoPrep == [hasDiffs |-> FALSE, fallbackNoDiffPR |-> FALSE, hasCreatedTargetBranch |-> FALSE]

\* a commit: the ref it descends from and the empty commits added on top
Commit(root, empties) == [root |-> root, empties |-> empties]

\* no such branch
NoCommit == [root |-> "", empties |-> 0]

NoPush == [target |-> NoCommit, source |-> NoCommit]

\* the working copy after git.Init: HEAD at the pulled default branch
FreshGit == [HEAD |-> Commit("main", 0), target |-> NoCommit, source |-> NoCommit, pushed |-> NoPush]

\* the title functions and the page selection have not run
NoTitle == [done |-> FALSE, title |-> <<>>, failed |-> 0]

NoSelect == [done |-> FALSE, targetMRs |-> <<>>]

\* the gateway, the backoff, the line ranges and the comment migration have
\* not run
MoreInit ==
    /\ rIn = None /\ rSt = None
    /\ bIn = None /\ bOut = None
    /\ lIn = None /\ lOut = None
    /\ cIn = None /\ cSt = None
    /\ aIn = None /\ aOut = None
    /\ nIn = None /\ nOut = None

\* no creation call was answered (an error value of no type)
NoAnswer == [type |-> None, status |-> 0, message |-> "", wraps |-> <<>>]

\* the history of a run: the destination when it started and, for the last
\* item whose detail fetch was issued, what was done for it: passed to branch
\* preparation, probed as having no diff, skipped by a materialization
\* failure, pushed, submitted for creation, the pull requests created, and
\* how processMergeRequest ended; and of the run: the list requests it has
\* made, the step whose error it returned, and whether its context has been
\* cancelled; answer is what the destination answered to the creation call
NoHist ==
    [atStart |-> <<>>, iid |-> 0, prepared |-> FALSE, noDiff |-> FALSE,
     skipped |-> FALSE, pushed |-> FALSE, attempted |-> FALSE, created |-> 0,
     res |-> None, listed |-> 0, failure |-> None, ctxDone |-> FALSE,
     answer |-> NoAnswer]

\* the values of --continue-from and of --mr-ids that are explored
ContinueFromIDs == {0, 2}

FilterLists == {<<>>, <<1, 2>>}

Options ==
    {[ContinueFromID |-> c, FilterMergeReqIDs |-> F] :
        c \in ContinueFromIDs, F \in FilterLists}

RunInit ==
    /\ dest = <<>>
    /\ runs = 0
    /\ pc = "idle"
    /\ outcome = None
    /\ opts = NoOpts
    /\ migratedMRIIDs = {}
    /\ openedPRs = <<>>
    /\ page = 1
    /\ targetMRs = <<>>
    /\ cur = NoCur
    /\ prep = NoPrep
    /\ git = FreshGit
    /\ hist = NoHist

Init ==
    /\ RunInit
    /\ tIn = None /\ tOut = NoTitle
    /\ sIn = None /\ sOut = NoSelect
    /\ MoreInit

(* ------------------------- destination listing ------------------------- *)

IsClosedPR(p) == p.state = "closed"

\* Client.GetClosedPullRequestTitles: the titles of the closed pull requests
GetClosedPullRequestTitles(d) ==
    LET closed == SelectSeq(d, IsClosedPR)
    IN  [i \in 1..Len(closed) |-> closed[i].title]

\* GetOpenedPullRequests listing the closed pull requests instead
RECURSIVE GetOpenedPullRequests_Closed(_, _)
GetOpenedPullRequests_Closed(d, n) ==
    IF n = 0 THEN <<>>
    ELSE (IF d[n].state = "closed" THEN <<n>> ELSE <<>>)
         \o GetOpenedPullRequests_Closed(d, n - 1)

\* Client.GetOpenedPullRequests: the numbers of the open pull requests among
\* the first n, newest first (the request names the state "opened", which the
\* destination answers like its default, the open ones)
RECURSIVE GetOpenedPullRequests(_, _)
GetOpenedPullRequests(d, n) ==
    IF n = 0 THEN <<>>
    ELSE (IF d[n].state = "open" THEN <<n>> ELSE <<>>) \o GetOpenedPullRequests(d, n - 1)

\* the pull request CreatePullRequest leaves at the destination
NewPR(iid) ==
    [title |-> PRTitle(iid, MRState(iid), MRTitle(iid)), state |-> "open",
     src |-> iid, failed |-> 0]

(* ------------------- errors and the retrying gateway ------------------- *)

\* maxRetries of RetryableOperation
maxRetries == 5

\* an error value: the type and fields of the innermost error and the
\* fmt.Errorf("...%w...") wrappers around it, outermost first
Err(type, status, message) ==
    [type |-> type, status |-> status, message |-> message, wraps |-> <<>>]

\* the nil error
Nil == Err("nil", 0, "")

\* ctx.Err() of a cancelled context
CtxErr == Err("context.Canceled", 0, "")

\* a *github.ErrorResponse with its status code and message
ErrorResponse(status, message) == Err("*github.ErrorResponse", status, message)

\* a *url.Error: the transport failed and no response was received
TransportErr == Err("*url.Error", 0, "")

\* fmt.Errorf with %w around e
Wrap(tag, e) == [e EXCEPT !.wraps = <<tag>> \o @]

\* IsErrorResponse that looks through the wrappers, as errors.As does
IsErrorResponse_As(e) == e.type = "*github.ErrorResponse"

\* the type assertion err.(*github.ErrorResponse)
IsErrorResponse(e) == e.wraps = <<>> /\ e.type = "*github.ErrorResponse"

\* isRateLimitError
isRateLimitError(e) ==
    IF e = Nil THEN FALSE
    ELSE IF IsErrorResponse(e)
    THEN (e.status = 403 /\ e.message = "rate limit") \/ e.status = 429
    ELSE FALSE

\* isRetryableError
isRetryableError(e) ==
    IF e = Nil THEN FALSE
    ELSE IF IsErrorResponse(e)
    THEN e.status \in {429, 500, 502, 503, 504}
    ELSE e.wraps = <<>> /\ e.type = "*url.Error"

\* Classify with the transient test made before the rate-limit test
Classify_RetryFirst(e) ==
    IF isRetryableError(e) THEN "retry"
    ELSE IF isRateLimitError(e) THEN "rate limit"
    ELSE "other"

\* the branch RetryableOperation takes for the error of an attempt
Classify(e) ==
    IF isRateLimitError(e) THEN "rate limit"
    ELSE IF isRetryableError(e) THEN "retry"
    ELSE "other"

\* MoreAttempts with the loop condition attempt <= maxRetries
MoreAttempts_OneMore(attempt) == attempt <= maxRetries

\* the loop condition of RetryableOperation
MoreAttempts(attempt) == attempt < maxRetries

\* SelectWait that sleeps for the delay without looking at ctx
SelectWait_Sleep(ctxDone) == "timer"

\* the case the select of the wait takes: ctx.Done() when the context is
\* cancelled before the delay is over, else the timer
SelectWait(ctxDone) == IF ctxDone THEN "ctx" ELSE "timer"

\* what the destination answers to a request: nothing wrong, an error
\* response, or no response at all
RawErrs ==
    {ErrorResponse(403, "rate limit"), ErrorResponse(403, "forbidden"),
     ErrorResponse(404, "not found"), ErrorResponse(422, "No commits between"),
     ErrorResponse(422, "validation failed"), ErrorResponse(429, "too many requests"),
     ErrorResponse(500, "server error"), ErrorResponse(502, "bad gateway"),
     ErrorResponse(503, "unavailable"), ErrorResponse(504, "gateway timeout"),
     TransportErr}

\* the destination client functions that pass their request through the gateway
ClientCalls ==
    {"CreatePullRequest", "AddLabelsToIssue", "DeleteBranch", "UpdatePullRequestTitle",
     "ClosePullRequest", "CreateIssueComment", "CreateCommitComment", "CreatePRComment",
     "CreatePRCommentReply"}

\* the client functions whose operation reads resp.Header and wraps the error
\* with the request id before it returns it
RequestIdCalls ==
    {"UpdatePullRequestTitle", "ClosePullRequest", "CreateIssueComment",
     "CreateCommitComment", "CreatePRComment", "CreatePRCommentReply"}

\* the operation of a client function panics: resp is nil when the transport
\* failed, and resp.Header is read before err is looked at
OperationPanics(call, raw) == call \in RequestIdCalls /\ raw = TransportErr

\* the error the operation of a client function returns for the answer raw
OperationErr(call, raw) ==
    IF raw = Nil THEN Nil
    ELSE IF call \in RequestIdCalls THEN Wrap("x-github-request-id", raw)
    ELSE raw

\* the error RetryableOperation returns once the attempts with the error e
\* are over and nothing was cancelled
GatewayEnd(e) ==
    CASE Classify(e) = "rate limit" -> Wrap("rate limited", e)
      [] Classify(e) = "retry" -> Wrap("operation failed after 5 attempts", e)
      [] OTHER -> e

\* a *NoDiffError
NoDiffErr == Err("*github.NoDiffError", 0, "")

\* the messages Client.CreatePullRequest takes for "no diff" (the message of
\* an error response stands for the messages of its error list too)
NoDiffMessages ==
    {"No commits between", "At least one commit is required", "No changes between",
     "There isn't anything to compare"}

\* ClientErr that knows no "no diff" answer
ClientErr_Generic(call, e) ==
    IF e = Nil THEN Nil ELSE Wrap("failed to create GitHub PR", e)

\* what a client function returns to its caller for the error e of its
\* gateway call
ClientErr(call, e) ==
    CASE e = Nil -> Nil
      [] call = "CreatePullRequest" ->
            IF IsErrorResponse(e) /\ e.message \in NoDiffMessages THEN NoDiffErr
            ELSE Wrap("failed to create GitHub PR", e)
      [] call = "AddLabelsToIssue" -> Wrap("failed to add labels to issue", e)
      [] call = "DeleteBranch" -> Wrap("failed to delete branch", e)
      [] call = "UpdatePullRequestTitle" -> Wrap("failed to update GitHub PR", e)
      [] call = "ClosePullRequest" -> Wrap("failed to close GitHub PR", e)
      [] call = "CreateCommitComment" -> Wrap("failed to create commit comment", e)
      [] OTHER -> e

\* the gateway call of createPullRequest, whose operation is the whole of
\* Client.CreatePullRequest, and the one of processMergeRequest around
\* Client.ClosePullRequest
NestedCalls == {"createPullRequest", "processMergeRequest.close"}

InnerCall(call) ==
    IF call = "createPullRequest" THEN "CreatePullRequest" ELSE "ClosePullRequest"

GatewayCalls == ClientCalls \cup NestedCalls

\* the answers an attempt of the call can get
Answers(call) ==
    IF call \in ClientCalls THEN {Nil} \cup RawErrs
    ELSE {Nil, CtxErr} \cup
         {ClientErr(InnerCall(call), GatewayEnd(OperationErr(InnerCall(call), raw))) :
            raw \in {r \in RawErrs : ~OperationPanics(InnerCall(call), r)}}

\* some answer makes the gateway call inside the client function try again
CanRetry(call) ==
    \E r \in RawErrs : ~OperationPanics(call, r) /\ Classify(OperationErr(call, r)) = "retry"

\* e carries the wrapper of the return behind the loop of RetryableOperation
IsExhausted(e) ==
    \E i \in 1..Len(e.wraps) : e.wraps[i] = "operation failed after 5 attempts"

\* how often the gateway call inside the client function can have invoked
\* its operation when the client function returns e: every attempt when the
\* attempts ran out, else any number of them if an answer is retried at all
InnerInvocations(call, e) ==
    IF IsExhausted(e) THEN {maxRetries}
    ELSE IF CanRetry(call) THEN 1..maxRetries
    ELSE {1}

\* the requests one invocation of the operation of a gateway call sends
Invocations(call, e) ==
    IF call \in ClientCalls THEN {1} ELSE InnerInvocations(InnerCall(call), e)

(* ------------------------ MigrateMergeRequests ------------------------- *)

\* the run returns (result "ok", "fatal", "cancelled") or the process dies
End(result) ==
    /\ pc' = "idle"
    /\ outcome' = result
    /\ openedPRs' = <<>>
    /\ page' = 1
    /\ targetMRs' = <<>>
    /\ cur' = NoCur
    /\ prep' = NoPrep
    /\ git' = FreshGit

\* the error of the step is logged and the run goes on to the first page
Failed_ListAnyway(step) ==
    /\ pc' = "list"
    /\ hist' = [hist EXCEPT !.failure = step]
    /\ UNCHANGED <<outcome, openedPRs, page, targetMRs, cur, prep, git>>

\* the run returns the error of the step
Failed(step) ==
    /\ End("fatal")
    /\ hist' = [hist EXCEPT !.failure = step]

\* the error of the step is logged and the loop goes to the next target
ItemFailed_Continue(step) ==
    /\ pc' = "item"
    /\ targetMRs' = Tail(targetMRs)
    /\ cur' = NoCur
    /\ prep' = NoPrep
    /\ git' = [git EXCEPT !.target = NoCommit, !.source = NoCommit, !.pushed = NoPush]
    /\ hist' = [hist EXCEPT !.res = "error", !.failure = step]
    /\ UNCHANGED <<outcome, openedPRs, page>>

\* processMergeRequest returned the error of the step, which ends the run
ItemFailed(step) ==
    /\ End("fatal")
    /\ hist' = [hist EXCEPT !.res = "error", !.failure = step]

\* processMergeRequest returned nil: the loop goes to the next target
ItemDone ==
    /\ pc' = "item"
    /\ targetMRs' = Tail(targetMRs)
    /\ cur' = NoCur
    /\ prep' = NoPrep
    /\ git' = [git EXCEPT !.target = NoCommit, !.source = NoCommit, !.pushed = NoPush]

\* the command starts: mirror the repository, then read the closed titles
\* and build the migrated-id set (lines 206-218)
StartRun ==
    /\ pc = "idle"
    /\ runs < MaxRuns
    /\ \E o \in Options, ok \in BOOLEAN :
        /\ runs' = runs + 1
        /\ opts' = o
        /\ hist' = [NoHist EXCEPT !.atStart = dest]
        /\ IF ok
           THEN /\ migratedMRIIDs' = MigratedIDs(GetClosedPullRequestTitles(dest))
                /\ pc' = "getOpened"
                /\ outcome' = "running"
           ELSE /\ migratedMRIIDs' = {}
                /\ pc' = "idle"
                /\ outcome' = "fatal"
    /\ UNCHANGED <<dest, openedPRs, page, targetMRs, cur, prep, git>>
    /\ UNCHANGED notRunVars

\* lines 221-224
GetOpened ==
    /\ pc = "getOpened"
    /\ \E ok \in BOOLEAN :
        IF ok
        THEN LET prs == GetOpenedPullRequests(dest, Len(dest))
             IN  /\ openedPRs' = prs
                 /\ pc' = IF prs = <<>> THEN "list" ELSE "cleanupTitle"
                 /\ UNCHANGED <<outcome, page, targetMRs, cur, prep, git, hist>>
        ELSE Failed("getOpened")
    /\ UNCHANGED <<dest, runs, opts, migratedMRIIDs>>
    /\ UNCHANGED notRunVars

\* lines 227-230: UpdatePullRequestTitle of the next stale open item
CleanupTitle ==
    /\ pc = "cleanupTitle"
    /\ \E ok \in BOOLEAN :
        IF ok
        THEN LET n == Head(openedPRs)
             IN  /\ dest' = [dest EXCEPT ![n].title = FailedTitle(@),
                                         ![n].failed = @ + 1]
                 /\ pc' = "cleanupClose"
                 /\ UNCHANGED <<outcome, openedPRs, page, targetMRs, cur, prep, git, hist>>
        ELSE Failed("cleanupTitle") /\ UNCHANGED dest
    /\ UNCHANGED <<runs, opts, migratedMRIIDs>>
    /\ UNCHANGED notRunVars

\* lines 231-233: ClosePullRequest of the item just relabeled
CleanupClose ==
    /\ pc = "cleanupClose"
    /\ \E ok \in BOOLEAN :
        IF ok
        THEN /\ dest' = [dest EXCEPT ![Head(openedPRs)].state = "closed"]
             /\ openedPRs' = Tail(openedPRs)
             /\ pc' = IF Tail(openedPRs) = <<>> THEN "list" ELSE "cleanupTitle"
             /\ UNCHANGED <<outcome, page, targetMRs, cur, prep, git, hist>>
        ELSE Failed("cleanupClose") /\ UNCHANGED dest
    /\ UNCHANGED <<runs, opts, migratedMRIIDs>>
    /\ UNCHANGED notRunVars

\* lines 240-276: list a page and select its targets
ListPage ==
    /\ pc = "list"
    /\ \E ok \in BOOLEAN :
        IF ok
        THEN LET mrs == GetMergeRequests(page)
             IN  /\ hist' = [hist EXCEPT !.listed = @ + 1]
                 /\ IF mrs = <<>>
                    THEN End("ok")
                    ELSE /\ targetMRs' = SelectTargets(mrs, opts, migratedMRIIDs)
                         /\ pc' = "item"
                         /\ UNCHANGED <<outcome, openedPRs, page, cur, prep, git>>
        ELSE /\ End("fatal")
             /\ hist' = [hist EXCEPT !.listed = @ + 1, !.failure = "list"]
    /\ UNCHANGED <<dest, runs, opts, migratedMRIIDs>>
    /\ UNCHANGED notRunVars

\* the select that never finds the context done
SelectDone_Never(signal) == FALSE

\* lines 280-285: select { case <-ctx.Done(): ... default: } finds the
\* context done when it has been cancelled
SelectDone(signal) == signal

\* lines 279-295 and 308-315: the head of the loop over targetMRs, for the
\* states of the context in signals
LoopHead(signals) ==
    /\ pc = "item"
    /\ IF targetMRs = <<>>
       THEN /\ page' = page + 1
            /\ pc' = "list"
            /\ UNCHANGED <<outcome, openedPRs, targetMRs, cur, prep, git, hist>>
       ELSE \E signal \in signals, ok \in BOOLEAN :
            CASE SelectDone(signal) ->
                    End("cancelled") /\ UNCHANGED hist
              [] ~SelectDone(signal) /\ ok ->
                    /\ hist' = [NoHist EXCEPT !.atStart = hist.atStart,
                                              !.listed = hist.listed,
                                              !.ctxDone = hist.ctxDone,
                                              !.iid = Head(targetMRs)]
                    /\ cur' = [iid |-> Head(targetMRs), pr |-> 0, label |-> None]
                    /\ pc' = "probe"
                    /\ UNCHANGED <<outcome, openedPRs, page, targetMRs, prep, git>>
              [] OTHER ->
                    /\ hist' = [NoHist EXCEPT !.atStart = hist.atStart,
                                              !.listed = hist.listed,
                                              !.ctxDone = hist.ctxDone,
                                              !.iid = Head(targetMRs),
                                              !.failure = "detail"]
                    /\ End("fatal")
    /\ UNCHANGED <<dest, runs, opts, migratedMRIIDs>>
    /\ UNCHANGED notRunVars

\* the head of the loop in a run where the interrupt comes at any moment:
\* the select finds the context done or not, as the watcher of runMigration
\* has got to cancel() or not
NextItem == LoopHead(BOOLEAN)

(* -------------------------- processMergeRequest ------------------------ *)

\* lines 345-350 and 389-391: the diff probe, then createPullRequest enters
\* preparePullRequestBranches
Probe ==
    /\ pc = "probe"
    /\ \E ok \in BOOLEAN, hasDiffs \in BOOLEAN :
        IF ok
        THEN /\ prep' = [hasDiffs |-> hasDiffs, fallbackNoDiffPR |-> ~hasDiffs,
                         hasCreatedTargetBranch |-> FALSE]
             /\ hist' = [hist EXCEPT !.prepared = TRUE, !.noDiff = ~hasDiffs]
             /\ pc' = IF hasDiffs THEN "prepTarget" ELSE "fallbackTarget"
             /\ UNCHANGED <<outcome, openedPRs, page, targetMRs, cur, git>>
        ELSE ItemFailed("probe")
    /\ UNCHANGED <<dest, runs, opts, migratedMRIIDs>>
    /\ UNCHANGED notRunVars

\* the results of Git.CreateBranch: the checkout at the sha succeeds ("ok"),
\* it fails and the checkout of the same-named GitLab branch succeeds
\* ("remote"), or an error whose text has or has not 'not our ref'
BranchResults == {"ok", "remote", "not our ref", "other"}

\* the results of Git.CreateBranch where every error is handled alike
FallbackResults == {"ok", "remote", "error"}

\* the names processMergeRequest gives the two branches of an item
BranchName(iid, branch) == "gitlab-mr-" \o ToString(iid) \o "-" \o branch

\* Git.CreateBranch(branch, sha) for the target or source branch of the item
\* iid: the branch and HEAD after the success r; an empty sha makes
\* git checkout -b start the branch at HEAD
CreateBranch(g, iid, branch, sha, r) ==
    LET c == IF r = "remote" THEN Commit("gitlab/" \o BranchName(iid, branch), 0)
             ELSE IF sha = "" THEN g.HEAD
             ELSE Commit(sha, 0)
    IN  [g EXCEPT ![branch] = c, !.HEAD = c]

\* lines 393-405: the target branch at the base sha
PrepTarget ==
    /\ pc = "prepTarget"
    /\ \E r \in BranchResults :
        CASE r \in {"ok", "remote"} ->
                /\ git' = CreateBranch(git, cur.iid, "target", "base", r)
                /\ prep' = [prep EXCEPT !.hasCreatedTargetBranch = TRUE]
                /\ pc' = "prepSource"
                /\ UNCHANGED hist
          [] r = "not our ref" ->
                /\ prep' = [prep EXCEPT !.fallbackNoDiffPR = TRUE]
                /\ pc' = "fallbackTarget"
                /\ UNCHANGED <<git, hist>>
          [] OTHER ->
                \* return nil: createPullRequest goes on to the creation
                /\ hist' = [hist EXCEPT !.skipped = TRUE]
                /\ pc' = "create"
                /\ UNCHANGED <<git, prep>>
    /\ UNCHANGED <<dest, runs, outcome, opts, migratedMRIIDs, openedPRs, page,
                   targetMRs, cur>>
    /\ UNCHANGED notRunVars

\* lines 408-412: the squash commit of a merged item, else the head sha
SourceBranchSha(iid) == IF MRState(iid) = "merged" THEN "squash" ELSE "head"

\* lines 407-422: the source branch at the head sha or the squash commit
PrepSource ==
    /\ pc = "prepSource"
    /\ \E r \in BranchResults :
        CASE r \in {"ok", "remote"} ->
                /\ git' = CreateBranch(git, cur.iid, "source", SourceBranchSha(cur.iid), r)
                /\ pc' = "push"
                /\ UNCHANGED <<prep, hist>>
          [] r = "not our ref" ->
                /\ prep' = [prep EXCEPT !.fallbackNoDiffPR = TRUE]
                /\ pc' = "fallbackSource"
                /\ UNCHANGED <<git, hist>>
          [] OTHER ->
                /\ hist' = [hist EXCEPT !.skipped = TRUE]
                /\ pc' = "create"
                /\ UNCHANGED <<git, prep>>
    /\ UNCHANGED <<dest, runs, outcome, opts, migratedMRIIDs, openedPRs, page,
                   targetMRs, cur>>
    /\ UNCHANGED notRunVars

\* lines 426-430: the fallback target branch, when none was created
FallbackTarget ==
    /\ pc = "fallbackTarget"
    /\ ~prep.hasCreatedTargetBranch
    /\ \E r \in FallbackResults :
        IF r # "error"
        THEN /\ git' = CreateBranch(git, cur.iid, "target", "", r)
             /\ pc' = "fallbackSource"
             /\ UNCHANGED <<outcome, openedPRs, page, targetMRs, cur, prep, hist>>
        ELSE ItemFailed("fallbackTarget")
    /\ UNCHANGED <<dest, runs, opts, migratedMRIIDs>>
    /\ UNCHANGED notRunVars

\* lines 431-433: the fallback source branch
FallbackSource ==
    /\ pc = "fallbackSource"
    /\ \E r \in FallbackResults :
        IF r # "error"
        THEN /\ git' = CreateBranch(git, cur.iid, "source", "", r)
             /\ pc' = "fallbackCommit"
             /\ UNCHANGED <<outcome, openedPRs, page, targetMRs, cur, prep, hist>>
        ELSE ItemFailed("fallbackSource")
    /\ UNCHANGED <<dest, runs, opts, migratedMRIIDs>>
    /\ UNCHANGED notRunVars

\* GitCommit that leaves the source branch without a new commit
GitCommit_NoCommit(g) == [g EXCEPT !.source = g.HEAD]

\* Git.Commit with --allow-empty: one more empty commit on the checked-out
\* branch, which is the source branch
GitCommit(g) ==
    LET c == Commit(g.HEAD.root, g.HEAD.empties + 1)
    IN  [g EXCEPT !.source = c, !.HEAD = c]

\* lines 434-436
FallbackCommit ==
    /\ pc = "fallbackCommit"
    /\ \E ok \in BOOLEAN :
        IF ok
        THEN /\ git' = GitCommit(git)
             /\ pc' = "push"
             /\ UNCHANGED <<outcome, openedPRs, page, targetMRs, cur, prep, hist>>
        ELSE ItemFailed("fallbackCommit")
    /\ UNCHANGED <<dest, runs, opts, migratedMRIIDs>>
    /\ UNCHANGED notRunVars

\* the push of the source branch alone
Push_SourceOnly ==
    /\ pc = "push"
    /\ git' = [git EXCEPT !.pushed = [target |-> NoCommit, source |-> git.source]]
    /\ hist' = [hist EXCEPT !.pushed = TRUE]
    /\ pc' = "create"
    /\ UNCHANGED <<dest, runs, outcome, opts, migratedMRIIDs, openedPRs, page,
                   targetMRs, cur, prep>>
    /\ UNCHANGED notRunVars

\* lines 439-442: Git.PushBranchOrigins(targetBranch, sourceBranch)
Push ==
    /\ pc = "push"
    /\ \E ok \in BOOLEAN :
        IF ok
        THEN /\ git' = [git EXCEPT !.pushed = [target |-> git.target, source |-> git.source]]
             /\ hist' = [hist EXCEPT !.pushed = TRUE]
             /\ pc' = "create"
             /\ UNCHANGED <<outcome, openedPRs, page, targetMRs, cur, prep>>
        ELSE ItemFailed("push")
    /\ UNCHANGED <<dest, runs, opts, migratedMRIIDs>>
    /\ UNCHANGED notRunVars

\* how the creation call ends for createPullRequest
CreateResults == {"ok", "no diff", "error"}

\* lines 506-517: the error createPullRequest gets from its gateway call
\* around Client.CreatePullRequest when the destination answers raw (the
\* answer of the last attempt)
CreateErr(raw) ==
    GatewayEnd(ClientErr("CreatePullRequest",
                         GatewayEnd(OperationErr("CreatePullRequest", raw))))

\* lines 519-530: nil, or errors.As finds a *NoDiffError in the chain, or
\* the error is returned
CreateResult(err) ==
    IF err = Nil THEN "ok"
    ELSE IF err.type = NoDiffErr.type THEN "no diff"
    ELSE "error"

\* lines 453-531: title, approvals, body, then the creation call
Create ==
    /\ pc = "create"
    /\ \E raw \in {Nil, CtxErr} \cup RawErrs :
        LET r == CreateResult(CreateErr(raw)) IN
        CASE r = "ok" ->
                /\ Len(dest) < MaxPRs
                /\ dest' = Append(dest, NewPR(cur.iid))
                /\ cur' = [cur EXCEPT !.pr = Len(dest) + 1]
                /\ hist' = [hist EXCEPT !.attempted = TRUE,
                                        !.created = @ + 1,
                                        !.answer = raw]
                /\ pc' = "comments"
                /\ UNCHANGED <<outcome, openedPRs, page, targetMRs, prep, git>>
          [] r = "no diff" ->
                \* pr is nil: processMergeRequest returns nil
                /\ ItemDone
                /\ hist' = [hist EXCEPT !.attempted = TRUE,
                                        !.res = "no diff",
                                        !.answer = raw]
                /\ UNCHANGED <<dest, outcome, openedPRs, page>>
          [] OTHER ->
                /\ End("fatal")
                /\ hist' = [hist EXCEPT !.attempted = TRUE,
                                        !.res = "error",
                                        !.failure = "create",
                                        !.answer = raw]
                /\ UNCHANGED dest
    /\ UNCHANGED <<runs, opts, migratedMRIIDs>>
    /\ UNCHANGED notRunVars

\* lines 357-360: migratePullRequestComments, whose error is only logged
Comments ==
    /\ pc = "comments"
    /\ pc' = "label"
    /\ UNCHANGED <<dest, runs, outcome, opts, migratedMRIIDs, openedPRs, page,
                   targetMRs, cur, prep, git, hist>>
    /\ UNCHANGED notRunVars

\* lines 362-372: the label of a closed or merged item; a failure is logged
Label ==
    /\ pc = "label"
    /\ \E ok \in BOOLEAN :
        /\ cur' = IF ok /\ MRState(cur.iid) \in {"closed", "merged"}
                  THEN [cur EXCEPT !.label = MRState(cur.iid)]
                  ELSE cur
    /\ pc' = "close"
    /\ UNCHANGED <<dest, runs, outcome, opts, migratedMRIIDs, openedPRs, page,
                   targetMRs, prep, git, hist>>
    /\ UNCHANGED notRunVars

\* lines 374-386: the close of a closed or merged item; a failure is logged
Close ==
    /\ pc = "close"
    /\ \E ok \in BOOLEAN :
        /\ dest' = IF ok /\ MRState(cur.iid) \in {"closed", "merged"}
                   THEN [dest EXCEPT ![cur.pr].state = "closed"]
                   ELSE dest
    /\ ItemDone
    /\ hist' = [hist EXCEPT !.res = "done"]
    /\ UNCHANGED <<runs, outcome, opts, migratedMRIIDs, openedPRs, page>>
    /\ UNCHANGED notRunVars

(* ------------------------------ environment ---------------------------- *)

\* the process ends in the middle of the run: os.Exit of the watcher, a
\* panic, a kill
Kill ==
    /\ pc # "idle"
    /\ End("killed")
    /\ UNCHANGED <<dest, runs, opts, migratedMRIIDs, hist>>
    /\ UNCHANGED notRunVars

Next ==
    \/ StartRun
    \/ GetOpened
    \/ CleanupTitle
    \/ CleanupClose
    \/ ListPage
    \/ NextItem
    \/ Probe
    \/ PrepTarget
    \/ PrepSource
    \/ FallbackTarget
    \/ FallbackSource
    \/ FallbackCommit
    \/ Push
    \/ Create
    \/ Comments
    \/ Label
    \/ Close
    \/ Kill

Spec == Init /\ [][Next]_vars

(* ------------------ the interrupt of a run (SpecCancel) ----------------- *)

\* the command has been started and has failed before its run began, so
\* that two starts are left
InitCancel ==
    /\ dest = <<>>
    /\ runs = MaxRuns - 2
    /\ pc = "idle"
    /\ outcome = "fatal"
    /\ opts = NoOpts
    /\ migratedMRIIDs = {}
    /\ openedPRs = <<>>
    /\ page = 1
    /\ targetMRs = <<>>
    /\ cur = NoCur
    /\ prep = NoPrep
    /\ git = FreshGit
    /\ hist = NoHist
    /\ tIn = None /\ tOut = NoTitle
    /\ sIn = None /\ sOut = NoSelect
    /\ MoreInit

\* migrate.go lines 52-57: the watcher gets the signal and calls cancel()
Cancel ==
    /\ pc # "idle"
    /\ ~hist.ctxDone
    /\ hist' = [hist EXCEPT !.ctxDone = TRUE]
    /\ UNCHANGED <<dest, runs, pc, outcome, opts, migratedMRIIDs, openedPRs, page,
                   targetMRs, cur, prep, git>>
    /\ UNCHANGED notRunVars

\* the head of the loop with the context as the watcher left it
NextItemCtx == LoopHead({hist.ctxDone})

NextCancel ==
    \/ StartRun
    \/ GetOpened
    \/ CleanupTitle
    \/ CleanupClose
    \/ ListPage
    \/ NextItemCtx
    \/ Probe
    \/ PrepTarget
    \/ PrepSource
    \/ FallbackTarget
    \/ FallbackSource
    \/ FallbackCommit
    \/ Push
    \/ Create
    \/ Comments
    \/ Label
    \/ Close
    \/ Cancel
    \/ Kill

SpecCancel == InitCancel /\ [][NextCancel]_vars

(* ---------------- the title functions on their own (SpecTitle) --------- *)

\* a title of n characters without a space
LongTitle(n) == [i \in 1..n |-> "x"]

\* original titles: empty, short, a space, one that looks like a marker, one
\* that starts with a number, and two around the title limit
Titles ==
    {<<>>, <<"a">>, <<" ">>, <<"G", "L", "#", "9", " ", "x">>, <<"7", " ", "b">>,
     LongTitle(MaxPRTitleLength - 5), LongTitle(MaxPRTitleLength)}

MRStates == {"opened", "closed", "merged"}

\* the title before truncation, for the length it has
RawTitleLen(in) ==
    Len(GLPrefix) + Len(Itoa(in.iid)) + Len(in.title)
    + (IF in.state = "closed" THEN Len(ClosedInfix) ELSE 1)

InitTitle ==
    /\ RunInit
    /\ tIn \in [iid : 1..MaxIID, state : MRStates, title : Titles]
    /\ tOut = NoTitle
    /\ sIn = None /\ sOut = NoSelect
    /\ MoreInit

\* createPullRequest builds the title of the item (lines 455-461)
CreateTitle ==
    /\ ~tOut.done
    /\ tOut' = [done |-> TRUE, title |-> PRTitle(tIn.iid, tIn.state, tIn.title), failed |-> 0]
    /\ UNCHANGED <<tIn, runVars, selectVars, moreVars>>

\* the stale-open cleanup rewrites the title (line 227)
RelabelTitle ==
    /\ tOut.done
    /\ tOut.failed < MaxRelabels
    /\ tOut' = [tOut EXCEPT !.title = FailedTitle(@), !.failed = @ + 1]
    /\ UNCHANGED <<tIn, runVars, selectVars, moreVars>>

NextTitle ==
    \/ CreateTitle
    \/ RelabelTitle

SpecTitle == InitTitle /\ [][NextTitle]_vars

(* --------------- the page selection on its own (SpecSelect) ------------ *)

SelectFilters == {<<>>, <<1>>, <<2, 7>>, <<7, 2>>, <<2, 2>>}

SelectMigrated == {{}, {1, 2, 3}, {7}}

InitSelect ==
    /\ RunInit
    /\ tIn = None /\ tOut = NoTitle
    /\ sIn \in [mrs : {AllMRs(n) : n \in 1..MaxSelectID},
                opts : [ContinueFromID : 0..MaxSelectID, FilterMergeReqIDs : SelectFilters],
                migrated : SelectMigrated]
    /\ sOut = NoSelect
    /\ MoreInit

\* the loop over one page (lines 248-276)
SelectPage ==
    /\ ~sOut.done
    /\ sOut' = [done |-> TRUE, targetMRs |-> SelectTargets(sIn.mrs, sIn.opts, sIn.migrated)]
    /\ UNCHANGED <<sIn, runVars, titleVars, moreVars>>

NextSelect == SelectPage

SpecSelect == InitSelect /\ [][NextSelect]_vars

(* --------------- the retrying gateway on its own (SpecRetry) ----------- *)

NoRetry ==
    [phase |-> "call", attempt |-> 0, calls |-> 0, remote |-> 0, waits |-> 0, ctxDone |-> FALSE,
     cancelledIn |-> None, err |-> Nil, kind |-> None, result |-> Nil]

InitRetry ==
    /\ RunInit
    /\ tIn = None /\ tOut = NoTitle
    /\ sIn = None /\ sOut = NoSelect
    /\ rIn \in [call : GatewayCalls]
    /\ rSt = NoRetry
    /\ bIn = None /\ bOut = None
    /\ lIn = None /\ lOut = None
    /\ cIn = None /\ cSt = None
    /\ aIn = None /\ aOut = None
    /\ nIn = None /\ nOut = None

\* RetryableOperation returns
Return(kind, result) == [rSt EXCEPT !.phase = "done", !.kind = kind, !.result = result]

\* one pass of the loop body up to the select: the operation is invoked and
\* its error classified (client.go lines 129-153)
RetryAttempt ==
    /\ rSt.phase = "call"
    /\ \E raw \in Answers(rIn.call) : \E n \in Invocations(rIn.call, raw) :
        LET e == IF rIn.call \in ClientCalls THEN OperationErr(rIn.call, raw) ELSE raw
            st == [rSt EXCEPT !.calls = @ + 1, !.remote = @ + n, !.err = e]
        IN  rSt' =
              CASE rIn.call \in ClientCalls /\ OperationPanics(rIn.call, raw) ->
                      [st EXCEPT !.phase = "done", !.kind = "panic", !.err = raw]
                [] e = Nil ->
                      [st EXCEPT !.phase = "done", !.kind = "nil"]
                [] Classify(e) = "rate limit" ->
                      [st EXCEPT !.phase = "done", !.kind = "rate limited",
                                 !.result = Wrap("rate limited", e)]
                [] Classify(e) = "retry" ->
                      [st EXCEPT !.phase = "wait"]
                [] OTHER ->
                      [st EXCEPT !.phase = "done", !.kind = "other", !.result = e]
    /\ UNCHANGED <<rIn, runVars, titleVars, selectVars, backoffVars, rangeVars, itemVars, approvalVars, bodyVars>>

\* the select of the wait (lines 143-148) and the loop condition after it
RetryWait ==
    /\ rSt.phase = "wait"
    /\ rSt' =
         IF SelectWait(rSt.ctxDone) = "ctx"
         THEN Return("cancelled", CtxErr)
         ELSE IF MoreAttempts(rSt.attempt + 1)
         THEN [rSt EXCEPT !.phase = "call", !.attempt = @ + 1, !.waits = @ + 1]
         ELSE [Return("exhausted", Wrap("operation failed after 5 attempts", rSt.err))
                 EXCEPT !.attempt = @ + 1, !.waits = @ + 1]
    /\ UNCHANGED <<rIn, runVars, titleVars, selectVars, backoffVars, rangeVars, itemVars, approvalVars, bodyVars>>

\* the context of the call is cancelled (cancelledIn records where the call
\* was at that moment)
RetryCancel ==
    /\ rSt.phase \in {"call", "wait"}
    /\ ~rSt.ctxDone
    /\ rSt' = [rSt EXCEPT !.ctxDone = TRUE, !.cancelledIn = rSt.phase]
    /\ UNCHANGED <<rIn, runVars, titleVars, selectVars, backoffVars, rangeVars, itemVars, approvalVars, bodyVars>>

NextRetry ==
    \/ RetryAttempt
    \/ RetryWait
    \/ RetryCancel

SpecRetry == InitRetry /\ [][NextRetry]_vars

(* --------------- calculateBackoff on its own (SpecBackoff) ------------- *)

\* the attempt indexes 0..MaxAttemptIndex are tried, and those at which the
\* power leaves the float64 range
MaxAttemptIndex == 8

\* rand.Float64() is one of the values i / (2 * JitterSteps), 0 <= i < 2 * JitterSteps,
\* so that the factor rand.Float64()*2 - 1 is j / JitterSteps, -JitterSteps <= j < JitterSteps
JitterSteps == 5

\* backoffFactor, initialDelay and maxDelay of RetryableOperation, the
\* durations in milliseconds
backoffFactor == 2
initialDelay == 1000
maxDelay == 60000

\* the least attempt index at which float64(initialDelay) * math.Pow(factor, attempt),
\* 10^9 * 2^attempt nanoseconds, is beyond the largest float64 and so +Inf
FirstInfAttempt == 995

\* the greatest attempt index whose backoff is kept as an exact number here;
\* a greater one below FirstInfAttempt gives a "huge" float: finite and more
\* than twice maxDelay
MaxExactAttempt == 16

\* float64 values: a number of milliseconds, a huge finite number, +Inf, NaN
Finite(ms) == [cls |-> "finite", ms |-> ms]
Huge == [cls |-> "huge", ms |-> 0]
PosInf == [cls |-> "+Inf", ms |-> 0]
NaN == [cls |-> "NaN", ms |-> 0]

RECURSIVE Pow(_, _)
\* math.Pow for a whole exponent
Pow(factor, n) == IF n = 0 THEN 1 ELSE factor * Pow(factor, n - 1)

\* float64(initialDelay) * math.Pow(factor, float64(attempt))
Backoff(attempt, initial, factor) ==
    IF attempt >= FirstInfAttempt THEN PosInf
    ELSE IF attempt > MaxExactAttempt THEN Huge
    ELSE Finite(initial * Pow(factor, attempt))

\* backoff + backoff * 0.2 * (rand.Float64()*2 - 1), the factor being
\* j / JitterSteps: a huge backoff stays above twice maxDelay * 0.8; +Inf gets
\* the jitter +Inf (sum +Inf), -Inf or NaN (sum NaN)
WithJitter(b, j) ==
    CASE b.cls = "finite" -> Finite(b.ms + (b.ms * j) \div (5 * JitterSteps))
      [] b.cls = "huge" -> Huge
      [] b.cls = "+Inf" -> IF j > 0 THEN PosInf ELSE NaN
      [] OTHER -> NaN

\* backoff > float64(maxDelay): false for NaN
Exceeds(b, max) ==
    CASE b.cls = "finite" -> b.ms > max
      [] b.cls \in {"huge", "+Inf"} -> TRUE
      [] OTHER -> FALSE

\* time.Duration(backoff): the conversion of NaN is implementation dependent
\* (the least int64 where the conversion instruction answers "indefinite", 0
\* where it saturates; the least integer here stands for the least int64)
ToDuration(b) ==
    IF b.cls = "finite" THEN {b.ms} ELSE {-2147483647, 0}

\* calculateBackoff without the test against maxDelay
calculateBackoff_NoClamp(attempt, initial, factor, max, j) ==
    ToDuration(WithJitter(Backoff(attempt, initial, factor), j))

\* calculateBackoff: the durations it can return for the random factor j / JitterSteps
calculateBackoff(attempt, initial, factor, max, j) ==
    LET backoff == WithJitter(Backoff(attempt, initial, factor), j)
    IN  ToDuration(IF Exceeds(backoff, max) THEN Finite(max) ELSE backoff)

AttemptIndexes ==
    (0 .. MaxAttemptIndex) \cup {FirstInfAttempt - 1, FirstInfAttempt, FirstInfAttempt + 29}

NoBackoff == [done |-> FALSE, delay |-> 0]

InitBackoff ==
    /\ RunInit
    /\ tIn = None /\ tOut = NoTitle
    /\ sIn = None /\ sOut = NoSelect
    /\ rIn = None /\ rSt = None
    /\ bIn \in [attempt : AttemptIndexes, j : (0 - JitterSteps) .. (JitterSteps - 1)]
    /\ bOut = NoBackoff
    /\ lIn = None /\ lOut = None
    /\ cIn = None /\ cSt = None
    /\ aIn = None /\ aOut = None
    /\ nIn = None /\ nOut = None

\* delay := calculateBackoff(attempt, initialDelay, backoffFactor, maxDelay)
CalculateBackoff ==
    /\ ~bOut.done
    /\ \E d \in calculateBackoff(bIn.attempt, initialDelay, backoffFactor, maxDelay, bIn.j) :
          bOut' = [done |-> TRUE, delay |-> d]
    /\ UNCHANGED <<bIn, runVars, titleVars, selectVars, retryVars, rangeVars, itemVars, approvalVars, bodyVars>>

NextBackoff == CalculateBackoff

SpecBackoff == InitBackoff /\ [][NextBackoff]_vars

(* --------- resolveCommentLineRanges on its own (SpecRange) ------------- *)

\* the greatest line number a position carries
MaxLine == 12

\* a *int: nil or the address of a number
NilInt == [nil |-> TRUE, v |-> 0]
IntPtr(n) == [nil |-> FALSE, v |-> n]

\* the positions of an anchored note: LineRange is nil, or one of StartRange
\* and EndRange is, or neither
PositionShapes == {"no range", "start only", "end only", "both"}

\* append(numbers, n) when n != 0
AppendNonZero(numbers, n) == IF n # 0 THEN Append(numbers, n) ELSE numbers

\* the numbers resolveCommentLineRanges collects, in the order of its tests
CollectNumbers(pos) ==
    LET fromStart ==
            IF pos.shape \in {"start only", "both"}
            THEN AppendNonZero(AppendNonZero(<<>>, pos.startOld), pos.startNew)
            ELSE <<>>
    IN  IF pos.shape \in {"end only", "both"}
        THEN AppendNonZero(AppendNonZero(fromStart, pos.endOld), pos.endNew)
        ELSE fromStart

RECURSIVE InsertSorted(_, _)
\* n put into the sorted sequence s behind the numbers that are not greater
InsertSorted(s, n) ==
    IF s = <<>> THEN <<n>>
    ELSE IF s[1] <= n THEN <<s[1]>> \o InsertSorted(Tail(s), n)
    ELSE <<n>> \o s

RECURSIVE SortWith(_, _)
SortWith(sorted, rest) ==
    IF rest = <<>> THEN sorted ELSE SortWith(InsertSorted(sorted, rest[1]), Tail(rest))

\* SortStable that leaves the numbers in the order they were collected
SortStable_Unsorted(numbers) == numbers

\* sort.SliceStable(numbers, less) with less(i, j) == numbers[i] < numbers[j]
SortStable(numbers) == SortWith(<<>>, numbers)

\* resolveCommentLineRanges: (from, to)
resolveCommentLineRanges(pos) ==
    LET numbers == SortStable(CollectNumbers(pos))
    IN  IF Len(numbers) > 0
        THEN <<IntPtr(numbers[1]), IntPtr(numbers[Len(numbers)])>>
        ELSE <<NilInt, NilInt>>

\* StartLineField that sends the start whenever there is one
StartLineField_Always(startLine, lastLine) == startLine

\* the StartLine field of the request of Client.CreatePRComment
StartLineField(startLine, lastLine) ==
    IF ~startLine.nil /\ ~lastLine.nil /\ startLine.v < lastLine.v THEN startLine ELSE NilInt

NoRange == [done |-> FALSE, from |-> NilInt, to |-> NilInt, StartLine |-> NilInt, Line |-> NilInt]

InitRange ==
    /\ RunInit
    /\ tIn = None /\ tOut = NoTitle
    /\ sIn = None /\ sOut = NoSelect
    /\ rIn = None /\ rSt = None
    /\ bIn = None /\ bOut = None
    /\ lIn \in [shape : PositionShapes, startOld : 0 .. MaxLine, startNew : 0 .. MaxLine,
                endOld : 0 .. MaxLine, endNew : 0 .. MaxLine]
    /\ lOut = NoRange
    /\ cIn = None /\ cSt = None
    /\ aIn = None /\ aOut = None
    /\ nIn = None /\ nOut = None

\* the anchored head comment of createGitHubDiscussion: the range is resolved
\* and Client.CreatePRComment builds its request from it
AnchoredComment ==
    /\ ~lOut.done
    /\ LET r == resolveCommentLineRanges(lIn)
       IN  lOut' = [done |-> TRUE, from |-> r[1], to |-> r[2],
                    StartLine |-> StartLineField(r[1], r[2]), Line |-> r[2]]
    /\ UNCHANGED <<lIn, runVars, titleVars, selectVars, retryVars, backoffVars, itemVars, approvalVars, bodyVars>>

NextRange == AnchoredComment

SpecRange == InitRange /\ [][NextRange]_vars

(* ------ processMergeRequest after the branches are pushed (SpecItem) --- *)

\* MaxCommentLength of utils
MaxCommentLength == 65536

\* the most discussions a merge request has
NumDiscussions == 2

\* a note of a discussion; a body is a sequence of pieces of text, each as
\* long as one character for utils.TruncateText
Note(id, system, body, resolved, position) ==
    [id |-> id, System |-> system, Body |-> body, Resolved |-> resolved,
     Position |-> position]

\* a user's note, with a position (anchored) or without
UserNote(id, resolved, position) == Note(id, FALSE, <<id>>, resolved, position)

\* a system note
SystemNote(body) == Note("system", TRUE, <<body>>, FALSE, FALSE)

\* the discussions a merge request is made of: an anchored resolved root
\* with two replies; an anchored root with a system note and a reply; an
\* anchored root alone; a thread without position with two replies; an
\* individual note without and one with a position; and system notes of the
\* three kinds
Discussions ==
    {[IndividualNote |-> FALSE,
      Notes |-> <<UserNote("a", TRUE, TRUE), UserNote("b", FALSE, FALSE), UserNote("c", FALSE, FALSE)>>],
     [IndividualNote |-> FALSE,
      Notes |-> <<UserNote("d", FALSE, TRUE), SystemNote("changed this line"), UserNote("e", TRUE, FALSE)>>],
     [IndividualNote |-> FALSE, Notes |-> <<UserNote("f", FALSE, TRUE)>>],
     [IndividualNote |-> FALSE,
      Notes |-> <<UserNote("g", FALSE, FALSE), UserNote("h", FALSE, FALSE), UserNote("i", FALSE, FALSE)>>],
     [IndividualNote |-> TRUE, Notes |-> <<UserNote("j", TRUE, FALSE)>>],
     [IndividualNote |-> TRUE, Notes |-> <<UserNote("k", FALSE, TRUE)>>],
     [IndividualNote |-> TRUE, Notes |-> <<SystemNote("mentioned in commit ")>>],
     [IndividualNote |-> TRUE, Notes |-> <<SystemNote("closed")>>],
     [IndividualNote |-> TRUE, Notes |-> <<SystemNote("unassigned")>>]}

\* the system notes createGitHubDiscussion drops (of its list, those that occur)
IgnoredSystemBodies == {"closed", "mentioned in commit "}

\* utils.WrapCommentAsResolved
WrapCommentAsResolved(detail) ==
    <<"<details><summary>Resolved</summary>">>
        \o TruncateText(detail, MaxCommentLength - 35) \o <<"</details>">>

\* formatGitHubCommentBody
formatGitHubCommentBody(note) ==
    TruncateText(note.Body, MaxCommentLength) \o <<"by author at date">>

\* SentBody that wraps nothing
SentBody_Plain(body, resolved) == TruncateText(body, MaxCommentLength)

\* the body the client functions for comments send
SentBody(body, resolved) ==
    LET truncatedBody == TruncateText(body, MaxCommentLength)
    IN  IF resolved THEN WrapCommentAsResolved(truncatedBody) ELSE truncatedBody

\* the rule createGitHubDiscussion puts behind each merged reply
Rule == "----"

\* what a call of a client function comes to: the destination accepts it;
\* the gateway returns an error; or the request gets no response (transport
\* failure, cancelled context) and a function of RequestIdCalls panics
CallResults(call) ==
    IF call \in RequestIdCalls THEN {"ok", "error", "panic"} ELSE {"ok", "error"}

\* one call in the log of the destination
Call(call, d, body, resolved, replyTo, res) ==
    [call |-> call, d |-> d, body |-> body, resolved |-> resolved, replyTo |-> replyTo,
     res |-> res]

\* the page size of ListMergeRequestDiscussions
DiscussionsPerPage == 100

\* the values of --max-discussions that are explored (0: no cap)
MaxDiscussionsValues == {0, 1}

\* ListMergeRequestDiscussions: page p of the discussions all
DiscussionPage(all, p) ==
    LET from == (p - 1) * DiscussionsPerPage + 1
        to == IF p * DiscussionsPerPage < Len(all) THEN p * DiscussionsPerPage ELSE Len(all)
    IN  IF from > Len(all) THEN <<>> ELSE SubSeq(all, from, to)

RECURSIVE GetMergeRequestDiscussions(_, _, _, _)
\* GetMergeRequestDiscussions from page p on, with ret collected so far: the
\* page is appended whole; the loop ends behind a short page, or behind a
\* page that brings ret to maxDiscussions or more
GetMergeRequestDiscussions(all, maxDiscussions, p, ret) ==
    LET discussions == DiscussionPage(all, p)
        more == ret \o discussions
    IN  IF Len(discussions) < DiscussionsPerPage THEN more
        ELSE IF maxDiscussions > 0 /\ Len(more) >= maxDiscussions THEN more
        ELSE GetMergeRequestDiscussions(all, maxDiscussions, p + 1, more)

NoPR == [title |-> <<>>, state |-> None, labels |-> {}]

NoItem ==
    [pc |-> "create", d |-> 1, n |-> 1, fallbackOf |-> None, hasPRComment |-> FALSE,
     headCommentID |-> 0, replyIssueComment |-> <<>>, log |-> <<>>, failed |-> {},
     discussionsRead |-> FALSE, discussions |-> <<>>, pr |-> NoPR]

RECURSIVE SeqsUpTo(_, _)
\* the sequences of 1 to n elements of S
SeqsUpTo(S, n) ==
    IF n = 0 THEN {}
    ELSE LET shorter == SeqsUpTo(S, n - 1)
         IN  {<<x>> : x \in S} \cup shorter \cup {Append(s, x) : s \in shorter, x \in S}

InitItem ==
    /\ RunInit
    /\ tIn = None /\ tOut = NoTitle
    /\ sIn = None /\ sOut = NoSelect
    /\ rIn = None /\ rSt = None
    /\ bIn = None /\ bOut = None
    /\ lIn = None /\ lOut = None
    /\ cIn \in [IID : {42}, State : {"closed", "merged", "opened"}, Title : {<<"t">>},
                discussions : SeqsUpTo(Discussions, NumDiscussions),
                MaxDiscussions : MaxDiscussionsValues]
    /\ cSt = NoItem
    /\ aIn = None /\ aOut = None
    /\ nIn = None /\ nOut = None

ItemUnchanged ==
    UNCHANGED <<cIn, runVars, titleVars, selectVars, retryVars, backoffVars, rangeVars,
                approvalVars, bodyVars>>

\* the call is made and logged
Logged(st, c) == [st EXCEPT !.log = Append(@, c)]

\* createGitHubDiscussion returns: the loop of migratePullRequestComments
\* goes on to the next discussion, with a warning when err is not nil
NextDiscussion(st, err) ==
    [st EXCEPT !.pc = "head", !.d = @ + 1, !.n = 1, !.fallbackOf = None,
               !.hasPRComment = FALSE, !.headCommentID = 0, !.replyIssueComment = <<>>,
               !.failed = IF err THEN @ \cup {st.d} ELSE @]

\* the process dies of a nil pointer dereference
Panic(st) == [st EXCEPT !.pc = "panic"]

\* the discussion and the note the loops are at
CurDiscussion == cSt.discussions[cSt.d]
HeadNote == CurDiscussion.Notes[1]
TailNotes == Tail(CurDiscussion.Notes)

\* createPullRequest: the pull request is created, or it is not and
\* processMergeRequest returns (with an error or, without a diff, with nil)
ItemCreate ==
    /\ cSt.pc = "create"
    /\ \E res \in {"ok", "error"} :
        cSt' = IF res = "ok"
               THEN [cSt EXCEPT !.pc = "fetch",
                                !.pr = [title |-> PRTitle(cIn.IID, cIn.State, cIn.Title),
                                        state |-> "open", labels |-> {}]]
               ELSE [cSt EXCEPT !.pc = "done"]
    /\ ItemUnchanged

\* migratePullRequestComments gets the discussions; when it cannot,
\* processMergeRequest warns and goes on
ItemFetch ==
    /\ cSt.pc = "fetch"
    /\ \E ok \in BOOLEAN :
        cSt' = [cSt EXCEPT !.pc = IF ok THEN "head" ELSE "label",
                           !.discussionsRead = ok,
                           !.discussions =
                                IF ok
                                THEN GetMergeRequestDiscussions(cIn.discussions,
                                                                cIn.MaxDiscussions, 1, <<>>)
                                ELSE <<>>]
    /\ ItemUnchanged

\* the loop of migratePullRequestComments is over
ItemCommentsDone ==
    /\ cSt.pc = "head"
    /\ cSt.d > Len(cSt.discussions)
    /\ cSt' = [cSt EXCEPT !.pc = "label"]
    /\ ItemUnchanged

\* HeadIsFlat that looks at the position only
HeadIsFlat_NoPosition(discussion, head) == ~head.Position

\* line 593: the head note of a user goes out as a flat comment when the
\* discussion is an individual note or the note has no position
HeadIsFlat(discussion, head) == discussion.IndividualNote \/ ~head.Position

\* CommitCommentFailed that takes every outcome for a failure
CommitCommentFailed_Always(res) == TRUE

\* line 570: err != nil after CreateCommitComment
CommitCommentFailed(res) == res # "ok"

\* createGitHubDiscussion up to the outcome of its first call
DiscussionHead ==
    /\ cSt.pc = "head"
    /\ cSt.d <= Len(cSt.discussions)
    /\ LET head == HeadNote
           commitNote == head.System /\ head.Body = <<"mentioned in commit ">>
           flat == head.System \/ HeadIsFlat(CurDiscussion, head)
           call == IF commitNote THEN "CreateCommitComment"
                   ELSE IF flat THEN "CreateIssueComment" ELSE "CreatePRComment"
           body == IF commitNote THEN <<"Related PR">>
                   ELSE IF head.System THEN <<"[system]">> \o head.Body
                   ELSE formatGitHubCommentBody(head)
           resolved == IF commitNote THEN FALSE ELSE head.Resolved
       IN  IF head.System /\ ~commitNote /\ head.Body[1] \in IgnoredSystemBodies
           THEN cSt' = NextDiscussion(cSt, FALSE)
           ELSE \E res \in CallResults(call) :
                  LET st == Logged(cSt, Call(call, cSt.d, SentBody(body, resolved), resolved, 0, res))
                      id == Len(st.log)
                  IN  cSt' =
                        CASE res = "panic" -> Panic(st)
                          [] commitNote ->
                                IF ~CommitCommentFailed(res) THEN NextDiscussion(st, FALSE)
                                ELSE [st EXCEPT !.pc = "fallback", !.fallbackOf = call]
                          [] head.System -> NextDiscussion(st, res # "ok")
                          [] flat ->
                                IF res = "ok"
                                THEN [st EXCEPT !.pc = "tail", !.headCommentID = id]
                                ELSE NextDiscussion(st, TRUE)
                          [] OTHER ->
                                IF res = "ok"
                                THEN [st EXCEPT !.pc = "tail", !.headCommentID = id,
                                                !.hasPRComment = TRUE]
                                ELSE [st EXCEPT !.pc = "fallback", !.fallbackOf = call]
    /\ ItemUnchanged

\* the flat comment createGitHubDiscussion falls back to when the commit
\* comment or the anchored comment of the head note failed
DiscussionFallback ==
    /\ cSt.pc = "fallback"
    /\ LET head == HeadNote
           ofCommit == cSt.fallbackOf = "CreateCommitComment"
           body == IF ofCommit THEN <<"Related PR">> ELSE formatGitHubCommentBody(head)
       IN  \E res \in CallResults("CreateIssueComment") :
             LET st == Logged(cSt, Call("CreateIssueComment", cSt.d,
                                        SentBody(body, head.Resolved), head.Resolved, 0, res))
             IN  cSt' =
                   CASE res = "panic" -> Panic(st)
                     [] res = "error" -> NextDiscussion(st, TRUE)
                     [] ofCommit -> NextDiscussion(st, FALSE)
                     [] OTHER -> [st EXCEPT !.pc = "tail", !.headCommentID = Len(st.log)]
    /\ ItemUnchanged

\* RepliesThreaded that answers every reply in a thread
RepliesThreaded_Always(st) == TRUE

\* the test of the loop over tailNotes: the replies are threaded when the
\* head note became an anchored comment
RepliesThreaded(st) == st.hasPRComment

\* ReplyCommentID that answers the latest comment
ReplyCommentID_Latest(st) == Len(st.log)

\* CommentID of the reply input: the comment the reply is addressed to
ReplyCommentID(st) == st.headCommentID

\* one pass of the loop over tailNotes
DiscussionTail ==
    /\ cSt.pc = "tail"
    /\ cSt.n <= Len(TailNotes)
    /\ LET note == TailNotes[cSt.n]
       IN  IF note.System
           THEN cSt' = [cSt EXCEPT !.n = @ + 1]
           ELSE IF RepliesThreaded(cSt)
           THEN \E res \in CallResults("CreatePRCommentReply") :
                  LET st == Logged(cSt, Call("CreatePRCommentReply", cSt.d,
                                             SentBody(formatGitHubCommentBody(note), note.Resolved),
                                             note.Resolved, ReplyCommentID(cSt), res))
                  IN  cSt' = CASE res = "panic" -> Panic(st)
                               [] res = "error" -> NextDiscussion(st, TRUE)
                               [] OTHER -> [st EXCEPT !.n = @ + 1]
           ELSE cSt' = [cSt EXCEPT !.n = @ + 1,
                                   !.replyIssueComment =
                                        @ \o formatGitHubCommentBody(note) \o <<Rule>>]
    /\ ItemUnchanged

\* createGitHubDiscussion behind the loop: the merged replies are sent as one
\* flat comment, if there are any
DiscussionMerged ==
    /\ cSt.pc = "tail"
    /\ cSt.n > Len(TailNotes)
    /\ IF ~cSt.hasPRComment /\ cSt.replyIssueComment # <<>>
       THEN \E res \in CallResults("CreateIssueComment") :
              LET commentText == TruncateText(cSt.replyIssueComment, MaxCommentLength)
                  st == Logged(cSt, Call("CreateIssueComment", cSt.d,
                                         SentBody(commentText, TRUE), TRUE, 0, res))
              IN  cSt' = IF res = "panic" THEN Panic(st) ELSE NextDiscussion(st, res # "ok")
       ELSE cSt' = NextDiscussion(cSt, FALSE)
    /\ ItemUnchanged

\* StateLabel that has a label for closed merge requests only
StateLabel_ClosedOnly(state) == IF state = "closed" THEN <<"closed">> ELSE <<>>

\* the labels processMergeRequest asks for, by mr.State
StateLabel(state) ==
    IF state = "closed" THEN <<"closed">>
    ELSE IF state = "merged" THEN <<"merged">>
    ELSE <<>>

\* processMergeRequest step 3: the label of a closed or merged merge request;
\* a failure is a warning
ItemLabel ==
    /\ cSt.pc = "label"
    /\ IF StateLabel(cIn.State) # <<>>
       THEN \E res \in CallResults("AddLabelsToIssue") :
              LET st == Logged(cSt, Call("AddLabelsToIssue", 0, StateLabel(cIn.State), FALSE, 0, res))
              IN  cSt' = [st EXCEPT !.pc = "close",
                                    !.pr.labels = IF res = "ok"
                                                  THEN @ \cup {StateLabel(cIn.State)[1]}
                                                  ELSE @]
       ELSE cSt' = [cSt EXCEPT !.pc = "close"]
    /\ ItemUnchanged

\* processMergeRequest step 4: the pull request of a closed or merged merge
\* request is closed; a failure is a warning
ItemClose ==
    /\ cSt.pc = "close"
    /\ IF cIn.State \in {"closed", "merged"}
       THEN \E res \in CallResults("ClosePullRequest") :
              LET st == Logged(cSt, Call("ClosePullRequest", 0, <<>>, FALSE, 0, res))
              IN  cSt' = CASE res = "panic" -> Panic(st)
                           [] res = "ok" -> [st EXCEPT !.pc = "done", !.pr.state = "closed"]
                           [] OTHER -> [st EXCEPT !.pc = "done"]
       ELSE cSt' = [cSt EXCEPT !.pc = "done"]
    /\ ItemUnchanged

NextItemStep ==
    \/ ItemCreate
    \/ ItemFetch
    \/ ItemCommentsDone
    \/ DiscussionHead
    \/ DiscussionFallback
    \/ DiscussionTail
    \/ DiscussionMerged
    \/ ItemLabel
    \/ ItemClose

SpecItem == InitItem /\ [][NextItemStep]_vars

(* ------------- the approval times on their own (SpecApproval) ----------- *)

\* most state events of a merge request and most approvals that are explored
MaxEvents == 3

MaxApprovals == 2

\* the approvers, and the event without a user
Approvers == {"u", "v"}

NoUser == ""

\* the times of the events, and time.Now() of GetMergeRequestApprovals
EventTimes == {1, 2}

Now == 9

\* a state event of the merge request
StateEvents ==
    [State : {"approved", "merged"}, User : Approvers \cup {NoUser}, CreatedAt : EventTimes]

\* lines 66-79: an approval as GetMergeRequestApprovals collects it
ApprovalInfo(user) == [User |-> user, CreatedAt |-> Now]

\* an empty map of approval events
NoApprovalEvents == [user \in {} |-> 0]

RECURSIVE ApprovalEvents_First(_)
\* ApprovalEvents where the first event of a user stays
ApprovalEvents_First(events) ==
    IF events = <<>> THEN NoApprovalEvents
    ELSE LET event == Head(events)
             rest == ApprovalEvents_First(Tail(events))
         IN  IF event.State = "approved" /\ event.User # NoUser
             THEN [user \in DOMAIN rest \cup {event.User} |->
                     IF user = event.User THEN event.CreatedAt ELSE rest[user]]
             ELSE rest

RECURSIVE ApprovalEvents(_)
\* lines 124-130: the map from user to time, written event by event, so that
\* a later event of a user replaces an earlier one
ApprovalEvents(events) ==
    IF events = <<>> THEN NoApprovalEvents
    ELSE LET event == events[Len(events)]
             before == ApprovalEvents(SubSeq(events, 1, Len(events) - 1))
         IN  IF event.State = "approved" /\ event.User # NoUser
             THEN [user \in DOMAIN before \cup {event.User} |->
                     IF user = event.User THEN event.CreatedAt ELSE before[user]]
             ELSE before

\* updateApprovalTimesFromEvents
updateApprovalTimesFromEvents(events, approvals) ==
    LET approvalEvents == ApprovalEvents(events)
    IN  [i \in 1..Len(approvals) |->
            IF approvals[i].User \in DOMAIN approvalEvents
            THEN [approvals[i] EXCEPT !.CreatedAt = approvalEvents[approvals[i].User]]
            ELSE approvals[i]]

RECURSIVE SeqsTo(_, _)
\* the sequences of 0 to n elements of S
SeqsTo(S, n) ==
    IF n = 0 THEN {<<>>}
    ELSE LET shorter == SeqsTo(S, n - 1)
         IN  shorter \cup {Append(s, x) : s \in shorter, x \in S}

NoApprovals == [done |-> FALSE, approvals |-> <<>>]

InitApproval ==
    /\ RunInit
    /\ tIn = None /\ tOut = NoTitle
    /\ sIn = None /\ sOut = NoSelect
    /\ rIn = None /\ rSt = None
    /\ bIn = None /\ bOut = None
    /\ lIn = None /\ lOut = None
    /\ cIn = None /\ cSt = None
    /\ aIn \in [events : SeqsTo(StateEvents, MaxEvents),
                approvals : {[i \in 1..Len(us) |-> ApprovalInfo(us[i])] :
                                us \in SeqsTo(Approvers, MaxApprovals)}]
    /\ aOut = NoApprovals
    /\ nIn = None /\ nOut = None

\* lines 81-89 of GetMergeRequestApprovals: the events were fetched and the
\* times are updated
UpdateApprovalTimes ==
    /\ ~aOut.done
    /\ aOut' = [done |-> TRUE,
                approvals |-> updateApprovalTimesFromEvents(aIn.events, aIn.approvals)]
    /\ UNCHANGED <<aIn, runVars, titleVars, selectVars, retryVars, backoffVars, rangeVars,
                   itemVars, bodyVars>>

NextApproval == UpdateApprovalTimes

SpecApproval == InitApproval /\ [][NextApproval]_vars

(* ------------ the length of a comment body on its own (SpecBody) -------- *)

\* how far around the comment limit, and from 0 up, the lengths are explored
Margin == 60

\* the length of TruncateSuffix
TruncateSuffixLen == 15

\* what WrapCommentAsResolved takes off the limit for its block
ResolvedReserve == 35

\* the lengths of "<details><summary>Resolved</summary>\n\n" and of
\* "\n</details>"
ResolvedOpenLen == 38

ResolvedCloseLen == 11

\* utils.TruncateText, by the length of the text
TruncateLen(n, maxLength) ==
    IF n <= maxLength THEN n
    ELSE LET availableLength == maxLength - TruncateSuffixLen
         IN  IF availableLength <= 0 THEN maxLength
             ELSE availableLength + TruncateSuffixLen

\* utils.WrapCommentAsResolved, by the length of the detail
WrappedLen(n) ==
    ResolvedOpenLen + TruncateLen(n, MaxCommentLength - ResolvedReserve) + ResolvedCloseLen

\* the body CreateIssueComment, CreatePRComment and CreatePRCommentReply
\* send, by the length of the body they are given
SentLen(n, resolved) ==
    LET truncatedBody == TruncateLen(n, MaxCommentLength)
    IN  IF resolved THEN WrappedLen(truncatedBody) ELSE truncatedBody

BodyLengths ==
    (0 .. Margin) \cup ((MaxCommentLength - Margin) .. (MaxCommentLength + Margin))

NoBody == [done |-> FALSE, length |-> 0]

InitBody ==
    /\ RunInit
    /\ tIn = None /\ tOut = NoTitle
    /\ sIn = None /\ sOut = NoSelect
    /\ rIn = None /\ rSt = None
    /\ bIn = None /\ bOut = None
    /\ lIn = None /\ lOut = None
    /\ cIn = None /\ cSt = None
    /\ aIn = None /\ aOut = None
    /\ nIn \in [length : BodyLengths, resolved : BOOLEAN]
    /\ nOut = NoBody

\* a comment client function makes the body it sends
SendBody ==
    /\ ~nOut.done
    /\ nOut' = [done |-> TRUE, length |-> SentLen(nIn.length, nIn.resolved)]
    /\ UNCHANGED <<nIn, runVars, titleVars, selectVars, retryVars, backoffVars, rangeVars,
                   itemVars, approvalVars>>

NextBody == SendBody

SpecBody == InitBody /\ [][NextBody]_vars

(* ============================== properties ============================= *)

\* the destination items whose title parses to the id n
ItemsOf(n) ==
    {i \in 1..Len(dest) : HasMarker(dest[i].title) /\ MarkerID(dest[i].title) = n}

\* the ids that closed destination items carried as markers when the run started
CompletedAtStart ==
    {n \in 1..NumMRs :
        \E i \in 1..Len(hist.atStart) :
            /\ hist.atStart[i].state = "closed"
            /\ HasMarker(hist.atStart[i].title)
            /\ MarkerID(hist.atStart[i].title) = n}

\* the destination items that were open when the run started
OpenAtStart == {n \in 1..Len(hist.atStart) : hist.atStart[n].state = "open"}

\* processMergeRequest is at work on the current item
InProcessing == pc \in {"probe", "prepTarget", "prepSource", "fallbackTarget",
                        "fallbackSource", "fallbackCommit", "push", "create",
                        "comments", "label", "close"}

\* C1: once a run has finished without a fatal error, for every source id N
\* at most one destination item has a title that parses to N, whatever the
\* earlier runs were (interrupted, aborted) and whatever continuation id and
\* allow-list they had.
C1_AtMostOnePerID ==
    (pc = "idle" /\ outcome = "ok") =>
        \A n \in 1..NumMRs : Cardinality(ItemsOf(n)) <= 1

\* C2: a run against a destination that already holds closed items carrying
\* the markers of some source ids issues no detail fetch, no branch
\* preparation and no creation for any of these ids.
C2_NoRemigration ==
    \A n \in CompletedAtStart :
        /\ hist.iid # n
        /\ cur.iid # n
        /\ \A i \in 1..Len(targetMRs) : targetMRs[i] # n

\* C3: with both an allow-list and a continuation id set, the allow-list
\* overrides the continuation id entirely: the items selected from a page are
\* exactly the listed items whose id is in the allow-list.
C3_AllowListOverrides ==
    (sOut.done /\ Len(sIn.opts.FilterMergeReqIDs) > 0 /\ sIn.opts.ContinueFromID > 0) =>
        \A i \in 1..Len(sIn.mrs) :
            InFilter(sIn.mrs[i].IID, sOut.targetMRs)
                <=> InFilter(sIn.mrs[i].IID, sIn.opts.FilterMergeReqIDs)

\* C3 as amended: with an allow-list set, the items selected from a page are
\* exactly the listed items whose id is in the allow-list and, when a
\* continuation id is set, not below it; already migrated and still open
\* items included.
C3_AllowListAndContinuation ==
    (sOut.done /\ Len(sIn.opts.FilterMergeReqIDs) > 0) =>
        \A i \in 1..Len(sIn.mrs) :
            InFilter(sIn.mrs[i].IID, sOut.targetMRs)
                <=> /\ InFilter(sIn.mrs[i].IID, sIn.opts.FilterMergeReqIDs)
                    /\ sIn.mrs[i].IID >= sIn.opts.ContinueFromID

\* the allow-list {2,7} with the continuation id 5 on a page of the items
\* 1..7 selects the item 7 alone
C3_Witness ==
    /\ sOut.done
    /\ sIn.opts.FilterMergeReqIDs = <<2, 7>>
    /\ sIn.opts.ContinueFromID = 5
    /\ Len(sIn.mrs) = 7
    /\ sOut.targetMRs = <<7>>

\* C4: with a continuation id c > 0, no item with an id below c is selected,
\* fetched in detail or processed in that run, migrated already or not.
C4_NothingBelowContinuation ==
    opts.ContinueFromID > 0 =>
        /\ hist.iid = 0 \/ hist.iid >= opts.ContinueFromID
        /\ cur.iid = 0 \/ cur.iid >= opts.ContinueFromID
        /\ \A i \in 1..Len(targetMRs) : targetMRs[i] >= opts.ContinueFromID

\* a run with the continuation id 2 and no allow-list has created the pull
\* request of the item 3 while the item 1 is not migrated
C4_Witness ==
    /\ opts.ContinueFromID = 2
    /\ opts.FilterMergeReqIDs = <<>>
    /\ 1 \notin migratedMRIIDs
    /\ hist.iid = 3
    /\ hist.created = 1

\* every item that was open when the run started carries the rewritten title
\* and is closed
StaleCleaned ==
    \A n \in OpenAtStart :
        /\ dest[n].title = FailedPrefix \o hist.atStart[n].title
        /\ dest[n].state = "closed"

\* C5: every destination item open at run start has its title rewritten and
\* is then closed before the first page is listed and before any source item
\* is fetched or processed, also in a run that selects nothing; none of them
\* is closed with its old title.
C5_CleanupBeforeWork ==
    /\ (pc = "list" \/ pc = "item" \/ InProcessing \/ hist.iid # 0
        \/ (pc = "idle" /\ outcome = "ok")) => StaleCleaned
    /\ \A n \in OpenAtStart :
        dest[n].state = "closed" => dest[n].title = FailedPrefix \o hist.atStart[n].title

\* a run that found an open item at its start has finished without fetching
\* any source item
C5_Witness ==
    /\ pc = "idle"
    /\ outcome = "ok"
    /\ hist.iid = 0
    /\ OpenAtStart # {}

\* C6: for every id N >= 1, state and original title, the title built by
\* createPullRequest has the marker and parses to N under the tracker's rule.
C6_TitleRoundTrip ==
    (tOut.done /\ tOut.failed = 0) =>
        /\ HasMarker(tOut.title)
        /\ MarkerID(tOut.title) = tIn.iid

\* the title of a closed item with a two-digit id was built and truncated
C6_Witness ==
    /\ tOut.done
    /\ tOut.failed = 0
    /\ tIn.state = "closed"
    /\ tIn.iid >= 10
    /\ RawTitleLen(tIn) > MaxPRTitleLength
    /\ Len(tOut.title) = MaxPRTitleLength

\* the titles of the closed destination items that were never relabeled
CleanClosedTitles ==
    LET clean(p) == p.state = "closed" /\ p.failed = 0
        prs == SelectSeq(dest, clean)
    IN  [i \in 1..Len(prs) |-> prs[i].title]

\* C7: no title rewritten by the stale-open cleanup, once or several times,
\* has the marker, and the migrated-id set a run builds is the one the closed
\* items that were never relabeled give: a relabeled item adds no id.
C7_FailedNeverParses ==
    /\ \A i \in 1..Len(dest) : dest[i].failed > 0 => ~HasMarker(dest[i].title)
    /\ pc = "getOpened" => migratedMRIIDs = MigratedIDs(CleanClosedTitles)

\* a run has built its migrated-id set from a destination that holds a
\* closed, relabeled item
C7_Witness ==
    /\ pc = "getOpened"
    /\ \E i \in 1..Len(dest) : dest[i].failed > 0 /\ dest[i].state = "closed"

\* C8: no item that is still open at the source is passed to branch
\* preparation or to the creation, whatever the continuation id and the
\* allow-list are.
C8_NoOpenSourceItem ==
    (hist.prepared \/ hist.attempted) => MRState(hist.iid) # "opened"

\* the pushed source branch is one empty commit on top of the pushed target
SourceIsTargetPlusOne ==
    git.pushed.source = Commit(git.pushed.target.root, git.pushed.target.empties + 1)

\* C9: the processing of an item whose diff probe reports no diff always
\* ends with exactly one destination item created and never with a failure,
\* and the source branch it pushes is exactly one empty commit on top of the
\* target branch.
C9_NoDiffAlwaysOneItem ==
    /\ (hist.noDiff /\ hist.res # None) => (hist.res = "done" /\ hist.created = 1)
    /\ (hist.noDiff /\ hist.pushed /\ InProcessing) => SourceIsTargetPlusOne

\* C9 as amended: an item whose diff probe reports no diff is never skipped
\* by a materialization failure and is submitted for creation only after the
\* push; the source branch pushed is exactly one empty commit on top of the
\* commit it started at, which is the target branch unless its checkout fell
\* back to the same-named GitLab branch; exactly one destination item is
\* created when processing ends without error and with a pull request, none
\* when it ends with the destination's no-diff answer (no error) or with an
\* error of a git command, the push or the creation.
C9_NoDiffFallback ==
    hist.noDiff =>
        /\ ~hist.skipped
        /\ hist.attempted => hist.pushed
        /\ (hist.pushed /\ InProcessing) =>
            IF git.pushed.source.root = "gitlab/" \o BranchName(hist.iid, "source")
            THEN git.pushed.source.empties = 1
            ELSE SourceIsTargetPlusOne
        /\ hist.created <= 1
        /\ hist.res = "done" => hist.created = 1
        /\ hist.res \in {"no diff", "error"} => hist.created = 0

\* the processing of an item without diff has ended with its one pull request
C9_Witness ==
    /\ hist.noDiff
    /\ hist.pushed
    /\ hist.res = "done"
    /\ hist.created = 1

\* C10: an item whose target or source branch failed to materialize with an
\* error other than 'not our ref' is skipped: nothing is pushed for it, no
\* creation is attempted for it, and its processing ends without error.
C10_SkippedItemNotCreated ==
    hist.skipped =>
        /\ ~hist.pushed
        /\ ~hist.attempted
        /\ hist.res # "error"

(* ----- the gateway (SpecRetry) ----- *)

\* the rate-limit signature: an error response with status 403 and the
\* message "rate limit", or with status 429
RateLimitSignature(e) ==
    /\ e.type = "*github.ErrorResponse" /\ e.wraps = <<>>
    /\ (e.status = 403 /\ e.message = "rate limit") \/ e.status = 429

\* a transient error: an error response with status 500, 502, 503 or 504, or
\* a transport error
TransientError(e) ==
    /\ e.wraps = <<>>
    /\ \/ e.type = "*github.ErrorResponse" /\ e.status \in {500, 502, 503, 504}
       \/ e.type = "*url.Error"

\* the operation has returned its error to the gateway at least once
AttemptReturned == rSt.calls > 0 /\ rSt.kind # "panic"

\* C11: the gateway looks at the error of an attempt in the order rate limit,
\* transient, other: an error with the rate-limit signature, and an error that
\* is not transient, end the call right after the attempt (no wait follows
\* it, the error is returned as the rate-limit error or as it is); the call
\* waits or makes another attempt only after a transient error
C11_ClassifiedInOrder ==
    AttemptReturned =>
      /\ RateLimitSignature(rSt.err) =>
            /\ rSt.phase = "done" /\ rSt.kind = "rate limited"
            /\ rSt.waits = rSt.calls - 1
            /\ rSt.result = Wrap("rate limited", rSt.err)
      /\ (rSt.err # Nil /\ ~RateLimitSignature(rSt.err) /\ ~TransientError(rSt.err)) =>
            /\ rSt.phase = "done" /\ rSt.kind = "other"
            /\ rSt.waits = rSt.calls - 1
            /\ rSt.result = rSt.err
      /\ rSt.phase \in {"call", "wait"} => TransientError(rSt.err)

\* a call that was ended by status 429 on its second attempt
C11_Witness ==
    /\ rSt.phase = "done" /\ rSt.kind = "rate limited"
    /\ rSt.calls = 2 /\ rSt.waits = 1 /\ rSt.err.status = 429

\* the answer of the destination behind the error of the last attempt was a
\* 5xx response or a transport failure, whatever was wrapped around it
AnsweredTransient ==
    /\ rSt.calls > 0
    /\ \/ rSt.err.type = "*github.ErrorResponse" /\ rSt.err.status \in {500, 502, 503, 504}
       \/ rSt.err.type = "*url.Error"

\* C12: a title-update, close, flat-comment, commit-comment, anchored-comment
\* or threaded-reply call whose request fails with a 5xx response or a
\* transport failure is attempted again: the gateway waits or calls again, or
\* it has reached the attempt ceiling or was cancelled
C12_DestinationCallsRetried ==
    (rIn.call \in RequestIdCalls /\ AnsweredTransient) =>
        \/ rSt.phase \in {"call", "wait"}
        \/ rSt.phase = "done" /\ rSt.kind \in {"exhausted", "cancelled"}

\* C13: when every attempt of an operation has ended in a transient error
\* and the context was not cancelled, the operation was invoked exactly
\* maxRetries = 5 times (each attempt followed by a wait) and the call
\* returned the 'operation failed after 5 attempts' error around the error
\* of the last attempt
C13_ExhaustedAfterFive ==
    (rSt.phase = "done" /\ ~rSt.ctxDone /\ AttemptReturned /\ TransientError(rSt.err)) =>
        /\ rSt.calls = 5 /\ rSt.waits = 5
        /\ rSt.kind = "exhausted"
        /\ rSt.result = Wrap("operation failed after 5 attempts", rSt.err)
        /\ rSt.result.status = rSt.err.status /\ rSt.result.type = rSt.err.type

\* CreatePullRequest gave up after a fifth 503
C13_Witness ==
    /\ rIn.call = "CreatePullRequest"
    /\ rSt.phase = "done" /\ rSt.kind = "exhausted" /\ ~rSt.ctxDone
    /\ rSt.calls = 5 /\ rSt.err = ErrorResponse(503, "unavailable")

\* C14: when the context is cancelled while the gateway waits between two
\* attempts, the wait ends with the return of the call: the operation is not
\* invoked again and the call returns the error of the context, not the
\* error of the last attempt
C14_CancelEndsWait ==
    [][(rSt.phase = "wait" /\ rSt.ctxDone) =>
          /\ rSt'.phase = "done" /\ rSt'.kind = "cancelled"
          /\ rSt'.calls = rSt.calls /\ rSt'.waits = rSt.waits
          /\ rSt'.result = CtxErr /\ rSt'.result # rSt.err]_vars

\* a call cancelled during the wait after its second attempt
C14_Witness ==
    /\ rSt.phase = "done" /\ rSt.kind = "cancelled" /\ rSt.cancelledIn = "wait"
    /\ rSt.calls = 2 /\ rSt.waits = 1 /\ rSt.result = CtxErr

\* the wrappers around an error
Wrappers(e) == {e.wraps[i] : i \in DOMAIN e.wraps}

\* C15: a call that ended because of a rate-limit error hands its callers an
\* error that is still classified as a rate-limit error: the error the
\* gateway returns, the error the client function makes of it, and, in an
\* enclosing gateway call, the error of the attempt that carries it
C15_RateLimitSurvivesWrapping ==
    /\ (rSt.phase = "done" /\ rSt.kind = "rate limited") =>
          /\ isRateLimitError(rSt.result)
          /\ rIn.call \in ClientCalls => isRateLimitError(ClientErr(rIn.call, rSt.result))
    /\ (rSt.phase = "done" /\ "rate limited" \in Wrappers(rSt.err)) =>
          rSt.kind = "rate limited"

(* ----- calculateBackoff (SpecBackoff) ----- *)

\* c = min(initialDelay * factor^k, maxDelay)
ClampedDelay(k) ==
    IF k > MaxExactAttempt THEN maxDelay
    ELSE IF initialDelay * Pow(backoffFactor, k) > maxDelay THEN maxDelay
    ELSE initialDelay * Pow(backoffFactor, k)

\* 0.8 * c <= delay <= 1.2 * c (c is a whole number of seconds, so the two
\* ends are whole numbers of milliseconds)
WithinJitter(delay, c) == delay >= (8 * c) \div 10 /\ delay <= (12 * c) \div 10

NonZeroCandidates ==
    {n \in (IF lIn.shape \in {"start only", "both"} THEN {lIn.startOld, lIn.startNew} ELSE {})
             \cup (IF lIn.shape \in {"end only", "both"} THEN {lIn.endOld, lIn.endNew} ELSE {}) :
        n # 0}

\* C18: the end of the range is the largest and its start the smallest of
\* the non-zero candidates (no range when there is none); the request carries
\* a start line exactly when start < end, and its line is the end; the
\* candidates old-start 0, new-start 10, old-end 12, new-end 0 give 10 and 12
C18_LineRange ==
    lOut.done =>
      /\ NonZeroCandidates = {} => lOut.from.nil /\ lOut.to.nil /\ lOut.StartLine.nil
      /\ NonZeroCandidates # {} =>
            /\ ~lOut.from.nil /\ ~lOut.to.nil
            /\ lOut.from.v \in NonZeroCandidates /\ lOut.to.v \in NonZeroCandidates
            /\ \A n \in NonZeroCandidates : lOut.from.v <= n /\ n <= lOut.to.v
            /\ lOut.StartLine.nil <=> ~(lOut.from.v < lOut.to.v)
            /\ ~lOut.StartLine.nil => lOut.StartLine = lOut.from
      /\ lOut.Line = lOut.to
      /\ (lIn = [shape |-> "both", startOld |-> 0, startNew |-> 10, endOld |-> 12, endNew |-> 0]) =>
            lOut.from = IntPtr(10) /\ lOut.to = IntPtr(12) /\ lOut.StartLine = IntPtr(10)

\* the candidates of the example, resolved, and sent with a start line
C18_Witness ==
    /\ lIn = [shape |-> "both", startOld |-> 0, startNew |-> 10, endOld |-> 12, endNew |-> 0]
    /\ lOut.done /\ lOut.from.v = 10 /\ lOut.to.v = 12 /\ ~lOut.StartLine.nil

(* ----- the comments of one item (SpecItem) ----- *)

\* the calls of the log made for discussion d, as positions in the log
CallsOf(d) == {i \in 1..Len(cSt.log) : cSt.log[i].d = d}

\* createGitHubDiscussion has returned for discussion d
Finished(d) == d \in 1..Len(cIn.discussions) /\ d < cSt.d

\* the anchored comment of the head note of discussion d was rejected
AnchoredRejected(d) ==
    \E i \in CallsOf(d) : cSt.log[i].call = "CreatePRComment" /\ cSt.log[i].res = "error"

\* the flat comment that stands in for the rejected anchored comment (the
\* call right behind it) was accepted
FallbackAccepted(d) ==
    \E i \in CallsOf(d) :
        /\ cSt.log[i].call = "CreatePRComment" /\ i < Len(cSt.log)
        /\ cSt.log[i + 1].call = "CreateIssueComment" /\ cSt.log[i + 1].res = "ok"

RECURSIVE MergedReplies(_)
\* the replies of users among the notes, each followed by a rule
MergedReplies(notes) ==
    IF notes = <<>> THEN <<>>
    ELSE IF notes[1].System THEN MergedReplies(Tail(notes))
    ELSE notes[1].Body \o <<"by author at date", "----">> \o MergedReplies(Tail(notes))

\* the replies of discussion d
RepliesOf(d) == MergedReplies(Tail(cIn.discussions[d].Notes))

\* the flat comments of discussion d that carry all its replies and the rules
MergedCalls(d) ==
    {i \in CallsOf(d) :
        /\ cSt.log[i].call = "CreateIssueComment"
        /\ cSt.log[i].body =
              <<"<details><summary>Resolved</summary>">> \o RepliesOf(d) \o <<"</details>">>}

\* no threaded reply was sent for discussion d
NoThreadedReply(d) == \A i \in CallsOf(d) : cSt.log[i].call # "CreatePRCommentReply"

\* C17 as stated: when the anchored comment of the root of a discussion is
\* rejected, no threaded reply is sent for the discussion and its replies
\* are sent merged in one flat comment, a rule behind each
C17_RepliesMerged ==
    \A d \in 1..Len(cIn.discussions) :
        (Finished(d) /\ AnchoredRejected(d)) =>
            /\ NoThreadedReply(d)
            /\ RepliesOf(d) # <<>> => Cardinality(MergedCalls(d)) = 1

\* C17: when the anchored comment of the root of a discussion is rejected, no
\* threaded reply is sent for the discussion; once the flat comment that
\* stands in for the root is accepted, the replies of users are sent merged
\* in one flat comment marked resolved, a rule behind each, as the third and
\* last call of the discussion (no such call without a reply); as long as it
\* is not accepted (it is rejected, or the process dies in it) the discussion
\* has these two calls only and no reply is sent at all
C17_RepliesMergedAfterFallback ==
    \A d \in 1..Len(cIn.discussions) :
        AnchoredRejected(d) =>
            /\ NoThreadedReply(d)
            /\ Cardinality(MergedCalls(d)) <= 1
            /\ (Finished(d) /\ FallbackAccepted(d) /\ RepliesOf(d) # <<>>) =>
                  /\ Cardinality(MergedCalls(d)) = 1
                  /\ Cardinality(CallsOf(d)) = 3
                  /\ \A i \in MergedCalls(d) :
                        cSt.log[i].resolved /\ \A j \in CallsOf(d) : j <= i
            /\ (FallbackAccepted(d) /\ RepliesOf(d) = <<>>) => Cardinality(CallsOf(d)) = 2
            /\ ~FallbackAccepted(d) =>
                  /\ Cardinality(CallsOf(d)) <= 2
                  /\ MergedCalls(d) = {}
                  /\ Finished(d) => d \in cSt.failed

\* the anchored root "a" was rejected, the flat comment for it accepted, and
\* the replies "b" and "c" were sent in one flat comment
C17_Witness ==
    /\ cIn.discussions[1].Notes[1].id = "a"
    /\ Finished(1) /\ AnchoredRejected(1) /\ FallbackAccepted(1)
    /\ \E i \in MergedCalls(1) :
          cSt.log[i].body = <<"<details><summary>Resolved</summary>", "b", "by author at date",
                              "----", "c", "by author at date", "----", "</details>">>

\* the calls of the log of the given client function
CallsTo(call) == {i \in 1..Len(cSt.log) : cSt.log[i].call = call}

\* the scenario of C19: item 42, closed, with the one discussion of a
\* resolved anchored root and two replies; the pull request was created, the
\* discussions were read, and the destination accepted every call
Scenario42 ==
    /\ cIn.IID = 42 /\ cIn.State = "closed"
    /\ Len(cIn.discussions) = 1
    /\ cIn.discussions[1].Notes[1] = UserNote("a", TRUE, TRUE)
    /\ Len(cIn.discussions[1].Notes) = 3
    /\ cSt.pc = "done" /\ cSt.pr.state # None /\ cSt.discussionsRead
    /\ \A i \in 1..Len(cSt.log) : cSt.log[i].res = "ok"

\* C19: in that scenario the pull request has a title with the marker of
\* 42; the log has exactly one anchored comment, wrapped as resolved, exactly
\* two threaded replies, both to that comment, and no flat comment; the pull
\* request has the label "closed" and is closed
C19_EndToEnd42 ==
    Scenario42 =>
        /\ HasMarker(cSt.pr.title) /\ MarkerID(cSt.pr.title) = 42
        /\ Cardinality(CallsTo("CreatePRComment")) = 1
        /\ \A i \in CallsTo("CreatePRComment") :
              /\ cSt.log[i].body[1] = "<details><summary>Resolved</summary>"
              /\ cSt.log[i].body[Len(cSt.log[i].body)] = "</details>"
              /\ \A j \in CallsTo("CreatePRCommentReply") : cSt.log[j].replyTo = i /\ j > i
        /\ Cardinality(CallsTo("CreatePRCommentReply")) = 2
        /\ CallsTo("CreateIssueComment") = {} /\ CallsTo("CreateCommitComment") = {}
        /\ Cardinality(CallsTo("AddLabelsToIssue")) = 1
        /\ Cardinality(CallsTo("ClosePullRequest")) = 1
        /\ cSt.pr.labels = {"closed"}
        /\ cSt.pr.state = "closed"

\* the scenario has run to its end
C19_Witness == Scenario42 /\ Len(cSt.log) = 5 /\ cSt.pr.state = "closed"

\* C20: when a comment call of a discussion has failed, the process does not
\* die of it, and once the item is done every discussion has been gone
\* through and the label and the close of a closed or merged item have been
\* called
C20_FailureConfined ==
    (\E i \in 1..Len(cSt.log) : cSt.log[i].d > 0 /\ cSt.log[i].res # "ok") =>
        /\ cSt.pc # "panic"
        /\ cSt.pc = "done" =>
              /\ cSt.d = Len(cIn.discussions) + 1
              /\ cIn.State \in {"closed", "merged"} =>
                    /\ CallsTo("AddLabelsToIssue") # {}
                    /\ CallsTo("ClosePullRequest") # {}

\* the comment calls of the log
CommentCalls == {i \in 1..Len(cSt.log) : cSt.log[i].d > 0}

\* C21: a pull request made from a closed or merged merge request goes from
\* created to labeled to closed: the label call names the source state and
\* comes after every comment call, the close call comes after the label
\* call, the label is on the pull request and the pull request is closed
\* exactly when the destination accepted these calls, and when
\* processMergeRequest is through both calls have been made; a pull request
\* that was created stays, with its title
C21_LabeledThenClosed ==
    /\ [](cIn.State \in {"closed", "merged"} =>
            /\ Cardinality(CallsTo("AddLabelsToIssue")) <= 1
            /\ Cardinality(CallsTo("ClosePullRequest")) <= 1
            /\ \A i \in CallsTo("AddLabelsToIssue") :
                  /\ cSt.log[i].body = <<cIn.State>>
                  /\ \A j \in CommentCalls : j < i
                  /\ cSt.pc \in {"close", "done", "panic"}
                  /\ cSt.pr.labels = (IF cSt.log[i].res = "ok" THEN {cIn.State} ELSE {})
            /\ CallsTo("AddLabelsToIssue") = {} => cSt.pr.labels = {}
            /\ \A i \in CallsTo("ClosePullRequest") :
                  /\ \E j \in CallsTo("AddLabelsToIssue") : j < i
                  /\ i = Len(cSt.log)
                  /\ cSt.pr.state = (IF cSt.log[i].res = "ok" THEN "closed" ELSE "open")
            /\ CallsTo("ClosePullRequest") = {} => cSt.pr.state # "closed"
            /\ (cSt.pc = "done" /\ cSt.pr.state # None) =>
                  CallsTo("AddLabelsToIssue") # {} /\ CallsTo("ClosePullRequest") # {})
    /\ [][cSt.pr.state # None =>
            cSt'.pr.state # None /\ cSt'.pr.title = cSt.pr.title]_vars

\* a merged merge request with comments whose pull request was labeled
\* "merged" and then closed
C21_Witness ==
    /\ cIn.State = "merged" /\ cSt.pc = "done" /\ CommentCalls # {}
    /\ cSt.pr.labels = {"merged"} /\ cSt.pr.state = "closed"
    /\ cSt.log[Len(cSt.log)].call = "ClosePullRequest"
    /\ cSt.log[Len(cSt.log) - 1].call = "AddLabelsToIssue"

\* C22: a label call or a close call that has failed does not end the run: the
\* process is alive and the item goes on to its end
C22_PostCreationFailuresSkipped ==
    \A i \in CallsTo("AddLabelsToIssue") \cup CallsTo("ClosePullRequest") :
        cSt.log[i].res # "ok" =>
            /\ cSt.pc \in {"close", "done"}
            /\ cSt.log[i].call = "AddLabelsToIssue" /\ cSt.pc = "done" =>
                  CallsTo("ClosePullRequest") # {}

\* the steps whose error MigrateMergeRequests returns, of those C23 names
AbortingSteps == {"list", "detail", "push", "create"}

\* C23: the error of a list request, of a detail fetch, of the push or of the
\* creation call (the no-diff answer aside) ends the run with that error: the
\* step leaves the destination as it is, nothing is created for the item it
\* failed in, and until the next start of the command no item is taken up
\* and the destination does not change
C23_FatalFailuresAbort ==
    /\ [](hist.failure \in AbortingSteps =>
            /\ pc = "idle" /\ outcome = "fatal"
            /\ cur = NoCur /\ targetMRs = <<>>
            /\ hist.failure = "list" /\ hist.listed = 1 => hist.iid = 0
            /\ hist.failure = "detail" =>
                  ~hist.prepared /\ ~hist.attempted /\ hist.created = 0
            /\ hist.failure = "push" =>
                  ~hist.pushed /\ ~hist.attempted /\ hist.created = 0
            /\ hist.failure = "create" =>
                  hist.attempted /\ hist.created = 0 /\ hist.res = "error")
    /\ [][/\ hist'.failure \in AbortingSteps /\ hist.failure \notin AbortingSteps =>
               dest' = dest /\ pc' = "idle" /\ outcome' = "fatal"
          /\ hist.failure \in AbortingSteps =>
               dest' = dest /\ runs' = runs + 1 /\ hist'.atStart = dest]_vars

\* a push fails after an earlier item of the same run was created
C23_Witness ==
    /\ hist.failure = "push" /\ outcome = "fatal"
    /\ Len(dest) > Len(hist.atStart)

\* the two calls of the cleanup of a stale open pull request
CleanupSteps == {"cleanupTitle", "cleanupClose"}

\* C24: when the title rewrite or the close of a stale open pull request
\* fails, the run returns that error before it has made a list request: no
\* page was listed, no item was fetched or processed, the destination has the
\* pull requests it had at the start, and nothing happens until the command
\* is started again
C24_CleanupFailureAborts ==
    /\ [](hist.failure \in CleanupSteps =>
            /\ pc = "idle" /\ outcome = "fatal"
            /\ hist.listed = 0 /\ hist.iid = 0 /\ ~hist.prepared
            /\ hist.created = 0 /\ Len(dest) = Len(hist.atStart)
            /\ cur = NoCur /\ targetMRs = <<>>)
    /\ [][/\ hist'.failure \in CleanupSteps /\ hist.failure \notin CleanupSteps =>
               /\ pc \in CleanupSteps /\ hist'.failure = pc
               /\ dest' = dest /\ pc' = "idle" /\ outcome' = "fatal"
          /\ hist.failure \in CleanupSteps =>
               dest' = dest /\ runs' = runs + 1 /\ hist'.listed = 0]_vars

\* the close of a stale pull request fails after its title was rewritten
C24_Witness ==
    /\ hist.failure = "cleanupClose" /\ outcome = "fatal"
    /\ \E n \in 1..Len(dest) :
          dest[n].state = "open" /\ dest[n].title # hist.atStart[n].title

\* C25: a list request after the first is made only when the page before it
\* was full: once a page has come back with fewer than PerPage merge requests
\* no further page is requested
C25_StopsAtShortPage ==
    hist.listed > 1 => Len(GetMergeRequests(hist.listed - 1)) = PerPage

\* C26: once the context of a run has been cancelled no merge request is
\* taken up: the head of the item loop finds it done and returns the
\* cancellation without the detail fetch of the item, and nothing of that
\* item or of a later one is processed until the command is started again
C26_NoItemAfterCancel ==
    /\ [](outcome = "cancelled" => pc = "idle" /\ hist.ctxDone)
    /\ [][hist.ctxDone /\ runs' = runs =>
            /\ hist'.ctxDone /\ hist'.iid = hist.iid
            /\ cur'.iid \in {cur.iid, 0}
            /\ Len(dest') > Len(dest) => cur.iid = hist.iid /\ cur.iid # 0
            /\ pc = "item" /\ targetMRs # <<>> =>
                  /\ pc' = "idle" /\ outcome' \in {"cancelled", "killed"}
                  /\ hist' = hist /\ dest' = dest]_vars

\* a run is cancelled in the middle of an item and returns the cancellation
\* at the head of the loop with a target left
C26_Witness ==
    /\ outcome = "cancelled" /\ hist.ctxDone
    /\ hist.iid # 0 /\ hist.res = "done"
    /\ hist.iid < NumMRs

\* the item in hand has diffs and a branch materialization failed with 'not
\* our ref'
NotOurRefFallback == prep.hasDiffs /\ prep.fallbackNoDiffPR

\* the source branch has exactly one empty commit on top of the commit it was
\* created at: the target branch's, or the same-named GitLab branch's
OneEmptyCommit(g, iid) ==
    \/ g.source = Commit(g.target.root, g.target.empties + 1)
    \/ g.source = Commit("gitlab/" \o BranchName(iid, "source"), 1)

\* C27: after a 'not our ref' failure the fallback runs in order: the target
\* branch is created only when the materialization has not created it, then
\* the source branch is created, then one empty commit is added on the source
\* branch, then both branches are pushed in a single push
C27_FallbackOrder ==
    /\ [](NotOurRefFallback =>
            /\ pc \in {"fallbackTarget", "fallbackSource", "fallbackCommit", "push",
                       "create", "comments", "label", "close"}
            /\ pc = "fallbackTarget" =>
                  /\ ~prep.hasCreatedTargetBranch
                  /\ git.target = NoCommit /\ git.source = NoCommit
                  /\ git.pushed = NoPush
            /\ pc = "fallbackSource" =>
                  /\ git.target # NoCommit /\ git.source = NoCommit
                  /\ git.pushed = NoPush
                  /\ prep.hasCreatedTargetBranch =>
                        git.target \in {Commit("base", 0),
                                        Commit("gitlab/" \o BranchName(cur.iid, "target"), 0)}
            /\ pc = "fallbackCommit" =>
                  /\ git.target # NoCommit /\ git.source # NoCommit
                  /\ git.source = git.HEAD
                  /\ git.source \in {git.target,
                                     Commit("gitlab/" \o BranchName(cur.iid, "source"), 0)}
                  /\ git.pushed = NoPush
            /\ pc = "push" =>
                  /\ git.target # NoCommit
                  /\ OneEmptyCommit(git, cur.iid)
                  /\ git.pushed = NoPush
            /\ pc \in {"create", "comments", "label", "close"} =>
                  /\ hist.pushed
                  /\ git.target # NoCommit
                  /\ OneEmptyCommit(git, cur.iid)
                  /\ git.pushed = [target |-> git.target, source |-> git.source])
    /\ [][git'.pushed # git.pushed /\ git'.pushed # NoPush =>
            /\ pc = "push" /\ git.pushed = NoPush
            /\ git'.pushed = [target |-> git.target, source |-> git.source]
            /\ git.target # NoCommit /\ git.source # NoCommit]_vars

\* the target branch was made at the base sha, the source branch was not
\* ('not our ref'), and the fallback has pushed both
C27_Witness ==
    /\ NotOurRefFallback /\ prep.hasCreatedTargetBranch
    /\ pc = "create" /\ hist.pushed
    /\ git.pushed = [target |-> Commit("base", 0), source |-> Commit("base", 1)]

\* the destination rejects the creation with one of the "no diff" messages
NoDiffAnswer(raw) ==
    raw.type = "*github.ErrorResponse" /\ raw.message \in NoDiffMessages

\* C28: a creation that the destination rejects with a "no diff" message
\* comes back as the no-diff signal and not as a generic error: the step ends
\* the item without an error, creates nothing, the run goes on at the head
\* of the loop with the next target, and no comment, label or close step is
\* taken for the item
C28_NoDiffIsSkipped ==
    /\ [][pc = "create" /\ pc' # "idle" /\ hist'.attempted =>
            (NoDiffAnswer(hist'.answer) <=> hist'.res = "no diff")]_vars
    /\ [][pc = "create" /\ hist'.attempted /\ NoDiffAnswer(hist'.answer) =>
            /\ CreateErr(hist'.answer) = NoDiffErr
            /\ hist'.res = "no diff" /\ hist'.failure = None /\ hist'.created = 0
            /\ dest' = dest
            /\ pc' = "item" /\ outcome' = "running"
            /\ targetMRs' = Tail(targetMRs) /\ cur' = NoCur]_vars
    /\ [](hist.res = "no diff" =>
            /\ pc \in {"item", "list", "idle"}
            /\ hist.created = 0
            /\ hist.failure \in {None, "list"}
            /\ outcome \in {"running", "ok", "cancelled", "killed", "fatal"}
            /\ outcome = "fatal" => hist.failure = "list")

\* the creation of an item was answered "No commits between" and the run has
\* gone on to the next page request
C28_Witness ==
    /\ hist.res = "no diff" /\ NoDiffAnswer(hist.answer)
    /\ hist.listed = 2 /\ outcome = "ok"

\* the anchored comment of the head note of discussion d was accepted
AnchorAccepted(d) ==
    \E i \in CallsOf(d) : cSt.log[i].call = "CreatePRComment" /\ cSt.log[i].res = "ok"

\* the position in the log of the anchored comment of discussion d
AnchorOf(d) == CHOOSE i \in CallsOf(d) : cSt.log[i].call = "CreatePRComment"

IsUserNote(note) == ~note.System

\* the replies of users of discussion d, in source order
UserReplies(d) == SelectSeq(Tail(cIn.discussions[d].Notes), IsUserNote)

\* the threaded reply calls made for discussion d, in the order of the log
ReplyCalls(d) ==
    LET IsReplyOf(c) == c.d = d /\ c.call = "CreatePRCommentReply"
    IN  SelectSeq(cSt.log, IsReplyOf)

\* the k-th threaded reply call of discussion d carries the k-th reply of a
\* user and is addressed to the anchored comment
ReplyMatches(d, k) ==
    LET note == UserReplies(d)[k]
        c == ReplyCalls(d)[k]
    IN  /\ c.body = SentBody(formatGitHubCommentBody(note), note.Resolved)
        /\ c.resolved = note.Resolved
        /\ c.replyTo = AnchorOf(d)

\* no flat comment was sent for discussion d
NoFlatComment(d) == \A i \in CallsOf(d) : cSt.log[i].call # "CreateIssueComment"

\* C29 as stated: when the root of a discussion became an anchored comment,
\* every reply of a user is sent, in source order, as a threaded reply to that
\* comment, and no flat comment is sent for the discussion
C29_EveryReplyThreaded ==
    \A d \in 1..Len(cIn.discussions) :
        (Finished(d) /\ AnchorAccepted(d)) =>
            /\ Len(ReplyCalls(d)) = Len(UserReplies(d))
            /\ \A k \in 1..Len(ReplyCalls(d)) : ReplyMatches(d, k)
            /\ NoFlatComment(d)

\* C29: when the root of a discussion became an anchored comment, the replies
\* of users are sent in source order as threaded replies addressed to that
\* comment's id, one call a reply and after the anchored comment, until a
\* reply call fails: a rejected reply ends the discussion with its later
\* replies unsent, a reply call in which the process dies ends everything;
\* when no reply call fails every reply has been sent once the discussion is
\* over; and no flat comment is ever sent for the discussion
C29_RepliesThreadedUntilFailure ==
    \A d \in 1..Len(cIn.discussions) :
        AnchorAccepted(d) =>
            LET calls == ReplyCalls(d)
                last == Len(calls)
            IN  /\ NoFlatComment(d)
                /\ Cardinality(CallsOf(d)) = last + 1
                /\ \A i \in CallsOf(d) : AnchorOf(d) <= i
                /\ last <= Len(UserReplies(d))
                /\ \A k \in 1..last :
                      /\ ReplyMatches(d, k)
                      /\ k < last => calls[k].res = "ok"
                /\ (last > 0 /\ calls[last].res = "panic") => cSt.pc = "panic" /\ cSt.d = d
                /\ (last > 0 /\ calls[last].res = "error") => Finished(d) /\ d \in cSt.failed
                /\ Finished(d) =>
                      \/ last = Len(UserReplies(d)) /\ (last > 0 => calls[last].res # "panic")
                      \/ calls[last].res = "error"

\* the anchored root "a" was accepted and its replies "b" and "c" were sent
\* as threaded replies to it
C29_Witness ==
    /\ cIn.discussions[1].Notes[1].id = "a"
    /\ Finished(1) /\ AnchorAccepted(1)
    /\ Len(ReplyCalls(1)) = 2
    /\ ReplyCalls(1)[2].res = "ok" /\ ReplyCalls(1)[2].replyTo = 1
    /\ ReplyCalls(1)[2].body = <<"c", "by author at date">>

\* the head note of discussion d is a user's
UserRoot(d) == ~cIn.discussions[d].Notes[1].System

\* the head note of discussion d has a position and the discussion is a thread
AnchoredRoot(d) ==
    /\ UserRoot(d)
    /\ ~cIn.discussions[d].IndividualNote
    /\ cIn.discussions[d].Notes[1].Position

\* the call at position i of the log carries the head note of discussion d
CarriesRoot(d, i) ==
    LET head == cIn.discussions[d].Notes[1]
    IN  /\ cSt.log[i].d = d
        /\ cSt.log[i].body = SentBody(formatGitHubCommentBody(head), head.Resolved)
        /\ cSt.log[i].resolved = head.Resolved

\* the flat comment calls made for the head note of discussion d
FlatRootCalls(d) ==
    {i \in CallsOf(d) : cSt.log[i].call = "CreateIssueComment" /\ CarriesRoot(d, i)}

\* the anchored comment calls made for discussion d
AnchoredCalls(d) == {i \in CallsOf(d) : cSt.log[i].call = "CreatePRComment"}

\* the first call made for discussion d
FirstCall(d) == CHOOSE i \in CallsOf(d) : \A j \in CallsOf(d) : i <= j

\* C30: for the head note of a user with a position in a thread the first
\* call is the anchored comment, made once, and a flat comment for the head
\* note is sent exactly when that call was rejected, right behind it; for the
\* head note of a user in an individual note or without a position the first
\* call is the flat comment and no anchored comment is ever tried
C30_AnchoredFirstFlatOnRejection ==
    /\ [](\A d \in 1..Len(cIn.discussions) :
            (UserRoot(d) /\ CallsOf(d) # {}) =>
                IF AnchoredRoot(d)
                THEN /\ AnchoredCalls(d) = {FirstCall(d)}
                     /\ CarriesRoot(d, FirstCall(d))
                     /\ Cardinality(FlatRootCalls(d)) <= 1
                     /\ FlatRootCalls(d) # {} =>
                           /\ cSt.log[FirstCall(d)].res = "error"
                           /\ FlatRootCalls(d) = {FirstCall(d) + 1}
                     /\ cSt.log[FirstCall(d)].res = "error" =>
                           \/ FlatRootCalls(d) = {FirstCall(d) + 1}
                           \/ cSt.pc = "fallback" /\ cSt.d = d /\ FirstCall(d) = Len(cSt.log)
                ELSE /\ AnchoredCalls(d) = {}
                     /\ FlatRootCalls(d) = {FirstCall(d)})
    /\ [][cSt.pc = "fallback" =>
            /\ cSt'.log # cSt.log
            /\ cSt'.log[Len(cSt'.log)].call = "CreateIssueComment"]_vars

\* the anchored comment of root "d" was rejected and a flat comment sent for
\* it, while the individual note "k", which has a position, went out as a
\* flat comment at once
C30_Witness ==
    /\ Len(cIn.discussions) = 2
    /\ cIn.discussions[1].Notes[1].id = "d" /\ cIn.discussions[2].Notes[1].id = "k"
    /\ Finished(2)
    /\ AnchoredRejected(1) /\ FlatRootCalls(1) = {2}
    /\ AnchoredCalls(2) = {} /\ FlatRootCalls(2) # {}

\* the head note of discussion d is a system note that names a commit
CommitRoot(d) ==
    LET head == cIn.discussions[d].Notes[1]
    IN  head.System /\ head.Body = <<"mentioned in commit ">>

\* the calls of discussion d the destination accepted
AcceptedCalls(d) == {i \in CallsOf(d) : cSt.log[i].res = "ok"}

\* C31: for a system root note that names a commit the first call is the
\* commit comment; a flat comment is sent only when the commit comment has
\* failed, right behind it and once; the discussion makes no other call and
\* at most one of its calls is accepted
C31_CommitCommentThenFlat ==
    \A d \in 1..Len(cIn.discussions) :
        (CommitRoot(d) /\ CallsOf(d) # {}) =>
            /\ cSt.log[FirstCall(d)].call = "CreateCommitComment"
            /\ cSt.log[FirstCall(d)].body = <<"Related PR">>
            /\ CallsOf(d) \subseteq {FirstCall(d), FirstCall(d) + 1}
            /\ \A i \in CallsOf(d) \ {FirstCall(d)} :
                  /\ cSt.log[i].call = "CreateIssueComment"
                  /\ cSt.log[i].body = <<"Related PR">>
                  /\ cSt.log[FirstCall(d)].res = "error"
            /\ (Finished(d) /\ cSt.log[FirstCall(d)].res = "error") =>
                  Cardinality(CallsOf(d)) = 2
            /\ Cardinality(AcceptedCalls(d)) <= 1

\* the commit comment failed and the flat comment that stands in for it was
\* accepted
C31_Witness ==
    /\ CommitRoot(1) /\ Finished(1)
    /\ cSt.log[1].call = "CreateCommitComment" /\ cSt.log[1].res = "error"
    /\ cSt.log[2].call = "CreateIssueComment" /\ cSt.log[2].res = "ok"

\* the body starts with the opening of the 'Resolved' disclosure block
Wrapped(body) == body # <<>> /\ body[1] = "<details><summary>Resolved</summary>"

\* the notes of users of discussion d whose text is in the body of the call
\* at position i of the log
CarriedNotes(d, i) ==
    {k \in 1..Len(cIn.discussions[d].Notes) :
        LET note == cIn.discussions[d].Notes[k]
        IN  ~note.System /\ \E j \in 1..Len(cSt.log[i].body) : cSt.log[i].body[j] = note.id}

\* C32: the body of a comment call that carries notes of users is wrapped in
\* the 'Resolved' disclosure block exactly when the notes it carries are
\* marked resolved
C32_WrappedIffResolved ==
    \A d \in 1..Len(cIn.discussions) :
        \A i \in CallsOf(d) :
            CarriedNotes(d, i) # {} =>
                (Wrapped(cSt.log[i].body) <=>
                    \A k \in CarriedNotes(d, i) : cIn.discussions[d].Notes[k].Resolved)

\* C33: with a cap of m > 0 discussions, GetMergeRequestDiscussions returns
\* at most m discussions, and no more than m are gone through
C33_DiscussionCap ==
    (cIn.MaxDiscussions > 0 /\ cSt.discussionsRead) =>
        /\ Len(cSt.discussions) <= cIn.MaxDiscussions
        /\ cSt.d - 1 <= cIn.MaxDiscussions

(* ----- the approval times (SpecApproval) ----- *)

\* the positions of the 'approved' events of the user in the event list
ApprovedEventsOf(user) ==
    {j \in 1..Len(aIn.events) :
        aIn.events[j].State = "approved" /\ aIn.events[j].User = user}

\* the last of a non-empty set of positions
LastOf(S) == CHOOSE j \in S : \A k \in S : k <= j

\* C34: after the correlation the approvals are those that went in, in the
\* same order; an approval whose approver has an 'approved' event has the
\* time of the last such event of the list, any other keeps the time it was
\* made with
C34_ApprovalTimes ==
    aOut.done =>
        /\ Len(aOut.approvals) = Len(aIn.approvals)
        /\ \A i \in 1..Len(aIn.approvals) :
              /\ aOut.approvals[i].User = aIn.approvals[i].User
              /\ aOut.approvals[i].CreatedAt =
                    IF ApprovedEventsOf(aIn.approvals[i].User) # {}
                    THEN aIn.events[LastOf(ApprovedEventsOf(aIn.approvals[i].User))].CreatedAt
                    ELSE aIn.approvals[i].CreatedAt

\* u has approved twice, at 2 and then at 1, v never: u's approval gets the
\* time 1 and v's keeps the time it was made with
C34_Witness ==
    /\ aOut.done
    /\ aIn.events = <<[State |-> "approved", User |-> "u", CreatedAt |-> 2],
                      [State |-> "merged", User |-> "v", CreatedAt |-> 2],
                      [State |-> "approved", User |-> "u", CreatedAt |-> 1]>>
    /\ aOut.approvals = <<[User |-> "u", CreatedAt |-> 1], [User |-> "v", CreatedAt |-> Now]>>

(* ----- the length of a comment body (SpecBody) ----- *)

\* C35: the body that is sent is at most MaxCommentLength long, whatever the
\* length of the body that came in and whether or not it is wrapped
C35_BodyWithinLimit == nOut.done => nOut.length <= MaxCommentLength

\* the ids of mrs, in page order, that are in the allow-list and not below
\* the continuation id
RECURSIVE ListedFrom(_, _)
ListedFrom(mrs, o) ==
    IF mrs = <<>> THEN <<>>
    ELSE (IF /\ InFilter(Head(mrs).IID, o.FilterMergeReqIDs)
             /\ ~(o.ContinueFromID > 0 /\ Head(mrs).IID < o.ContinueFromID)
          THEN <<Head(mrs).IID>> ELSE <<>>)
         \o ListedFrom(Tail(mrs), o)

CreatedInRun == (Len(hist.atStart) + 1)..Len(dest)

\* C37: when a run has finished without a fatal error, every destination item
\* created during that run is closed: none with the marker is left open.
C37_CreatedItemsClosed ==
    (pc = "idle" /\ outcome = "ok") =>
        \A n \in CreatedInRun : dest[n].state = "closed"

\* C38: RetryableOperation waits only between attempts: a call performs at
\* most maxRetries - 1 waits, and none after the last permitted attempt.
C38_WaitsOnlyBetweenAttempts ==
    /\ rSt.waits <= maxRetries - 1
    /\ rSt.phase = "wait" => rSt.calls < maxRetries

\* C39: a gateway call whose operation is a client function with a gateway
\* call of its own sends at most maxRetries requests in all: it invokes the
\* client function once and never waits to invoke it again.
C39_NestedAtMostFive ==
    rIn.call \in NestedCalls =>
        /\ rSt.remote <= maxRetries
        /\ rSt.calls <= 1
        /\ rSt.phase # "wait"

\* the creation call of createPullRequest has returned after the gateway
\* inside Client.CreatePullRequest sent five requests and gave up
C39_Witness ==
    /\ rIn.call = "createPullRequest"
    /\ rSt.phase = "done"
    /\ rSt.remote = maxRetries
    /\ rSt.calls = 1
    /\ IsExhausted(rSt.result)
    /\ rSt.result.status = 503

\* the status the process ends with: 0 when the command returns nil or the
\* watcher ends the process after the signal, 1 when the command returns an
\* error, 2 when the process dies of a panic
ExitStatus ==
    CASE outcome = "ok" -> 0
      [] outcome \in {"fatal", "cancelled"} -> 1
      [] outcome = "killed" /\ hist.ctxDone -> 0
      [] OTHER -> 2

\* C40: once the watcher has cancelled the context, the process ends with the
\* status 0 however the watcher and the migration thread interleave: the
\* migration thread never ends it first with the cancellation error.
C40_InterruptExitsZero ==
    (hist.ctxDone /\ pc = "idle") => (ExitStatus = 0 /\ outcome # "cancelled")

====
